---- MODULE Spec2Model ----
(***************************************************************************)
(* Model of the WhatsApp binary-XML codec (src/binary), the Noise XX       *)
(* handshake (src/crypto/noise.rs, src/socket/handshake.rs) and the        *)
(* transport framing (src/socket/mod.rs, src/socket/handshake.rs), the     *)
(* crypto primitives (src/crypto), the client session (src/client.rs,      *)
(* src/state.rs), the request tracker (src/protocol/request.rs) and the    *)
(* QR pairing (src/protocol/qr.rs).                                        *)
(*                                                                         *)
(* Bytes are the integers 0..255, byte strings are sequences of bytes, a   *)
(* Rust String is the sequence of its UTF-8 bytes.  Cryptographic values   *)
(* are symbolic terms: tuples whose head is a tag string.                  *)
(***************************************************************************)
EXTENDS Integers, Sequences, FiniteSets, TLC

VARIABLES
  \* ---- codec ----
  node,      \* the Node handed to encode
  seed,      \* the HashMap iteration order of this run (RandomState)
  encoded,   \* encode(node), or <<>> before the call
  decoded,   \* the Result of decode(encoded) / decode(raw bytes), or NoResult
  dec,       \* a Decoder { data, index } driven through its read primitives
  jidTrip,   \* a JID written as an attribute value and read back, or NoJid
  tok,       \* one token-table lookup or one token read by the decoder, or NoTok
  fed,       \* the bytes the decode call was given, <<>> before the call
  \* ---- handshake ----
  hs,        \* the crypto::NoiseHandshake objects, initiator and responder
  hsLog,     \* per object: the calls made so far and how each returned
  splitOut,  \* per object: the (send, recv) ciphers split returned, or None
  net,       \* handshake messages written so far (the in-memory channel)
  wa,        \* the outcome of one run of NoiseSocket::handshake or do_handshake
  \* ---- transport ----
  kind,      \* which transport the two endpoints run: NoiseSocket or WhatsAppConnection
  conn,      \* per endpoint: its socket or connection struct
  wire,      \* per endpoint: the websocket messages waiting for its recv, in order
  sent,      \* per endpoint: the plaintexts handed to send and the counter of each
  got,       \* per endpoint: what each recv call returned and did to the frames it read
  tampered,  \* how many times the network dropped, injected or altered a frame
  \* ---- primitives, session, requests, pairing ----
  cry,       \* one use of a crypto primitive (Cipher, KeyPair::dh, Hkdf) and its result
  client,    \* the WhatsmeowClient: its SessionState and what its last call returned
  clock,     \* what Utc::now() returns, in minutes
  tracker,   \* the RequestTracker, the receivers handed out and what complete returned
  pairing    \* the QRPairing and what its last call returned

codecVars == <<node, seed, encoded, decoded, dec, fed, jidTrip, tok>>
hsVars    == <<hs, hsLog, splitOut, net, wa>>
trVars    == <<kind, conn, wire, sent, got, tampered>>
appVars   == <<cry, client, clock, tracker, pairing>>
vars      == <<node, seed, encoded, decoded, dec, fed, jidTrip, tok, hs, hsLog, splitOut, net, wa,
               kind, conn, wire, sent, got, tampered, cry, client, clock, tracker, pairing>>

\* ------------------------------------------------------------------------
\* Bytes and strings
\* ------------------------------------------------------------------------

Byte == 0..255

Max(a, b) == IF a >= b THEN a ELSE b

RECURSIVE Pow2(_)
Pow2(n) == IF n = 0 THEN 1 ELSE 2 * Pow2(n - 1)

\* n.to_be_bytes() cut to its k low-order bytes, most significant first.
\* Every n of the model is below 2^24, so the bytes above the third are 0.
BE(n, k) == [i \in 1..k |-> IF k - i >= 3 THEN 0 ELSE (n \div Pow2(8 * (k - i))) % 256]

Zeros(k) == [i \in 1..k |-> 0]

\* The code of a character of a string literal: the letters, the digits and the
\* punctuation that the token tables and the model's inputs use.
Lower == "abcdefghijklmnopqrstuvwxyz"
Upper == "ABCDEFGHIJKLMNOPQRSTUVWXYZ"
Digit == "0123456789"
Punct == "-./"

PosIn(c, chars) ==
  IF \E i \in 1..Len(chars) : SubSeq(chars, i, i) = c
  THEN CHOOSE i \in 1..Len(chars) : SubSeq(chars, i, i) = c
  ELSE 0

CharCode(c) ==
  CASE PosIn(c, Lower) > 0 -> 96 + PosIn(c, Lower)
    [] PosIn(c, Upper) > 0 -> 64 + PosIn(c, Upper)
    [] PosIn(c, Digit) > 0 -> 47 + PosIn(c, Digit)
    [] PosIn(c, Punct) > 0 -> 44 + PosIn(c, Punct)
    [] c = ":" -> 58
    [] c = "_" -> 95

\* str::as_bytes of a string literal.
RECURSIVE Utf8(_)
Utf8(s) == IF Len(s) = 0 THEN <<>> ELSE <<CharCode(SubSeq(s, 1, 1))>> \o Utf8(SubSeq(s, 2, Len(s)))

\* Whether a byte string is well-formed UTF-8 (String::from_utf8 succeeds).
RECURSIVE ValidUtf8(_)
ValidUtf8(b) ==
  LET n == Len(b)
      Cont(i) == i <= n /\ b[i] >= 128 /\ b[i] <= 191
      Rest(k) == ValidUtf8(SubSeq(b, k + 1, n))
  IN  IF n = 0 THEN TRUE
      ELSE IF b[1] < 128 THEN Rest(1)
      ELSE IF b[1] >= 194 /\ b[1] <= 223 THEN Cont(2) /\ Rest(2)
      ELSE IF b[1] = 224 THEN Cont(2) /\ b[2] >= 160 /\ Cont(3) /\ Rest(3)
      ELSE IF b[1] = 237 THEN Cont(2) /\ b[2] <= 159 /\ Cont(3) /\ Rest(3)
      ELSE IF b[1] >= 225 /\ b[1] <= 239 THEN Cont(2) /\ Cont(3) /\ Rest(3)
      ELSE IF b[1] = 240 THEN Cont(2) /\ b[2] >= 144 /\ Cont(3) /\ Cont(4) /\ Rest(4)
      ELSE IF b[1] >= 241 /\ b[1] <= 243 THEN Cont(2) /\ Cont(3) /\ Cont(4) /\ Rest(4)
      ELSE IF b[1] = 244 THEN Cont(2) /\ b[2] <= 143 /\ Cont(3) /\ Cont(4) /\ Rest(4)
      ELSE FALSE

\* ------------------------------------------------------------------------
\* Token dictionary (src/binary/token.rs)
\* ------------------------------------------------------------------------

(* token.rs SINGLE_BYTE_TOKENS: index 0 is the reserved empty slot. *)
SINGLE_BYTE_TOKENS ==
  <<
    "", "xmlstreamstart", "xmlstreamend", "s.whatsapp.net", "type", "participant", "from",
    "receipt", "id", "notification", "disappearing_mode", "status", "jid", "broadcast", "user",
    "devices", "device_hash", "to", "offline", "message", "result", "class", "xmlns",
    "duration", "notify", "iq", "t", "ack", "g.us", "enc", "urn:xmpp:whatsapp:push",
    "presence", "config_value", "picture", "verified_name", "config_code", "key-index-list",
    "contact", "mediatype", "routing_info", "edge_routing", "get", "read", "urn:xmpp:ping",
    "fallback_hostname", "0", "chatstate", "business_hours_config", "unavailable",
    "download_buckets", "skmsg", "verified_level", "composing", "handshake", "device-list",
    "media", "text", "fallback_ip4", "media_conn", "device", "creation", "location", "config",
    "item", "fallback_ip6", "count", "w:profile:picture", "image", "business", "2", "hostname",
    "call-creator", "display_name", "relaylatency", "platform", "abprops", "success", "msg",
    "offline_preview", "prop", "key-index", "v", "day_of_week", "pkmsg", "version", "1",
    "ping", "w:p", "download", "video", "set", "specific_hours", "props", "primary", "unknown",
    "hash", "commerce_experience", "last", "subscribe", "max_buckets", "call", "profile",
    "member_since_text", "close_time", "call-id", "sticker", "mode", "participants", "value",
    "query", "profile_options", "open_time", "code", "list", "host", "ts", "contacts",
    "upload", "lid", "preview", "update", "usync", "w:stats", "delivery", "auth_ttl",
    "context", "fail", "cart_enabled", "appdata", "category", "atn", "direct_connection",
    "decrypt-fail", "relay_id", "mmg-fallback.whatsapp.net", "target", "available", "name",
    "last_id", "mmg.whatsapp.net", "categories", "401", "is_new", "index", "tctoken", "ip4",
    "token_id", "latency", "recipient", "edit", "ip6", "add", "thumbnail-document", "26",
    "paused", "true", "identity", "stream:error", "key", "sidelist", "background", "audio",
    "3", "thumbnail-image", "biz-cover-photo", "cat", "gcm", "thumbnail-video", "error",
    "auth", "deny", "serial", "in", "registration", "thumbnail-link", "remove", "00", "gif",
    "thumbnail-gif", "tag", "capability", "multicast", "item-not-found", "description",
    "business_hours", "config_expo_key", "md-app-state", "expiration", "fallback", "ttl",
    "300", "md-msg-hist", "device_orientation", "out", "w:m", "open_24h", "side_list", "token",
    "inactive", "01", "document", "te2", "played", "encrypt", "msgr", "hide", "direct_path",
    "12", "state", "not-authorized", "url", "terminate", "signature", "status-revoke-delay",
    "02", "te", "linked_accounts", "trusted_contact", "timezone", "ptt", "kyc-id",
    "privacy_token", "readreceipts", "appointment_only", "address", "expected_ts", "privacy",
    "7", "android", "interactive", "device-identity", "enabled", "attribute_padding", "1080",
    "03", "screen_height"
  >>

(* token.rs DOUBLE_BYTE_TOKENS[0] (tag 236). *)
DOUBLE_DICT_0 ==
  <<
    "read-self", "active", "fbns", "protocol", "reaction", "screen_width", "heartbeat", "deviceid",
    "2:47DEQpj8", "uploadfieldstat", "voip_settings", "retry", "priority", "longitude", "conflict",
    "false", "ig_professional", "replaced", "preaccept", "cover_photo", "uncompressed", "encopt",
    "ppic", "04", "passive", "status-revoke-drop", "keygen", "540", "offer", "rate", "opus",
    "latitude", "w:gp2", "ver", "4", "business_profile", "medium", "sender", "prev_v_id", "email",
    "website", "invited", "sign_credential", "05", "transport", "skey", "reason",
    "peer_abtest_bucket", "America/Sao_Paulo", "appid", "refresh", "100", "06", "404", "101",
    "104", "107", "102", "109", "103", "member_add_mode", "105", "transaction-id", "110", "106",
    "outgoing", "108", "111", "tokens", "followers", "ig_handle", "self_pid", "tue", "dec", "thu",
    "joinable", "peer_pid", "mon", "features", "wed", "peer_device_presence", "pn", "delete", "07",
    "fri", "audio_duration", "admin", "connected", "delta", "rcat", "disable", "collection", "08",
    "480", "sat", "phash", "all", "invite", "accept", "critical_unblock_low", "group_update",
    "signed_credential", "blinded_credential", "eph_setting", "net", "09", "background_location",
    "refresh_id", "Asia/Kolkata", "privacy_mode_ts", "account_sync", "voip_payload_type",
    "service_areas", "acs_public_key", "v_id", "0a", "fallback_class", "relay", "actual_actors",
    "metadata", "w:biz", "5", "connected-limit", "notice", "0b", "host_storage", "fb_page",
    "subject", "privatestats", "invis", "groupadd", "010", "note.m4r", "uuid", "0c", "8000", "sun",
    "372", "1020", "stage", "1200", "720", "canonical", "fb", "011", "video_duration", "0d",
    "1140", "superadmin", "012", "Opening.m4r", "keystore_attestation", "dleq_proof", "013",
    "timestamp", "ab_key", "w:sync:app:state", "0e", "vertical", "600", "p_v_id", "6", "likes",
    "014", "500", "1260", "creator", "0f", "rte", "destination", "group", "group_info",
    "syncd_anti_tampering_fatal_exception_enabled", "015", "dl_bw", "Asia/Jakarta", "vp8/h.264",
    "online", "1320", "fb:multiway", "10", "timeout", "016", "nse_retry",
    "urn:xmpp:whatsapp:dirty", "017", "a_v_id", "web_shops_chat_header_button_enabled", "nse_call",
    "inactive-upgrade", "none", "web", "groups", "2250", "mms_hot_content_timespan_in_seconds",
    "contact_blacklist", "nse_read", "suspended_group_deletion_notification", "binary_version",
    "018", "https://www.whatsapp.com/otp/copy/", "reg_push",
    "shops_hide_catalog_attachment_entrypoint", "server_sync", ".",
    "ephemeral_messages_allowed_values", "019", "mms_vcache_aggregation_enabled", "iphone",
    "America/Argentina/Buenos_Aires", "01a", "mms_vcard_autodownload_size_kb", "nse_ver",
    "shops_header_dropdown_menu_item", "dhash", "catalog_status",
    "communities_mvp_new_iqs_serverprop", "blocklist", "default", "11",
    "ephemeral_messages_enabled", "01b", "original_dimensions", "8",
    "mms4_media_retry_notification_encryption_enabled",
    "mms4_server_error_receipt_encryption_enabled", "original_image_url", "sync", "multiway",
    "420", "companion_enc_static", "shops_profile_drawer_entrypoint", "01c",
    "vcard_as_document_size_kb", "status_video_max_duration", "request_image_url", "01d",
    "regular_high", "s_t", "abt", "share_ext_min_preliminary_image_quality", "01e", "32",
    "syncd_key_rotation_enabled", "data_namespace", "md_downgrade_read_receipts2", "patch",
    "polltype", "ephemeral_messages_setting", "userrate", "15", "partial_pjpeg_bw_threshold",
    "played-self", "catalog_exists", "01f", "mute_v2"
  >>

(* token.rs DOUBLE_BYTE_TOKENS[1] (tag 237). *)
DOUBLE_DICT_1 ==
  <<
    "reject", "dirty", "announcement", "020", "13", "9", "status_video_max_bitrate",
    "fb:thrift_iq", "offline_batch", "022", "full", "ctwa_first_business_reply_logging", "h.264",
    "smax_id", "group_description_length", "https://www.whatsapp.com/otp/code",
    "status_image_max_edge", "smb_upsell_business_profile_enabled", "021",
    "web_upgrade_to_md_modal", "14", "023", "s_o", "smaller_video_thumbs_status_enabled",
    "media_max_autodownload", "960", "blocking_status", "peer_msg",
    "joinable_group_call_client_version", "group_call_video_maximization_enabled",
    "return_snapshot", "high", "America/Mexico_City", "entry_point_block_logging_enabled", "pop",
    "024", "1050", "16", "1380", "one_tap_calling_in_group_chat_size", "regular_low",
    "inline_joinable_education_enabled", "hq_image_max_edge", "locked", "America/Bogota",
    "smb_biztools_deeplink_enabled", "status_image_quality", "1088", "025",
    "payments_upi_intent_transaction_limit", "voip", "w:g2", "027", "md_pin_chat_enabled", "026",
    "multi_scan_pjpeg_download_enabled", "shops_product_grid", "transaction_id"
  >>

(* token.rs DOUBLE_BYTE_TOKENS[2] (tag 238). *)
DOUBLE_DICT_2 ==
  <<
    "ctwa_context_enabled", "20", "fna", "hq_image_quality", "alt_jpeg_doc_detection_quality",
    "group_call_max_participants", "pkey", "America/Belem", "image_max_kbytes",
    "web_cart_v1_1_order_message_changes_enabled", "ctwa_context_enterprise_enabled",
    "urn:xmpp:whatsapp:account", "840", "Asia/Kuala_Lumpur", "max_participants",
    "video_remux_after_repair_enabled", "stella_addressbook_restriction_type", "660", "900",
    "780", "context_menu_ios13_enabled", "mute-state", "ref", "payments_request_messages",
    "029", "frskmsg", "vcard_max_size_kb", "sample_buffer_gif_player_enabled",
    "match_last_seen", "510", "4983", "video_max_bitrate", "028", "w:comms:chat", "17",
    "frequently_forwarded_max", "groups_privacy_blacklist", "Asia/Karachi", "02a",
    "web_download_document_thumb_mms_enabled", "02b", "hist_sync", "biz_block_reasons_version",
    "1024", "18", "web_is_direct_connection_for_plm_transparent", "view_once_write",
    "file_max_size", "paid_convo_id", "online_privacy_setting", "video_max_edge",
    "view_once_read", "enhanced_storage_management", "multi_scan_pjpeg_encoding_enabled",
    "ctwa_context_forward_enabled", "video_transcode_downgrade_enable",
    "template_doc_mime_types", "hq_image_bw_threshold", "30", "body"
  >>

(* token.rs DOUBLE_BYTE_TOKENS[3] (tag 239). *)
DOUBLE_DICT_3 ==
  <<
    "stream:features", "regular", "1724", "profile_picture"
  >>

DOUBLE_BYTE_TOKENS == <<DOUBLE_DICT_0, DOUBLE_DICT_1, DOUBLE_DICT_2, DOUBLE_DICT_3>>

\* The tables as byte strings, computed once.
SingleBytes == [i \in 1..Len(SINGLE_BYTE_TOKENS) |-> Utf8(SINGLE_BYTE_TOKENS[i])]

\* get_token_index: the reverse map is filled in table order, so a string
\* held by several indices maps to the last of them; the empty slot is left out.
\* NoToken stands for Option::None.
NoToken == -1

get_token_index(s) ==
  LET hits == {i \in 1..Len(SingleBytes) : SingleBytes[i] = s /\ Len(SingleBytes[i]) > 0}
  IN  IF hits = {} THEN NoToken
      ELSE (CHOOSE i \in hits : \A j \in hits : j <= i) - 1

\* get_token that answers an index outside the table with the empty string.
get_token_or_empty(index) ==
  IF index < Len(SINGLE_BYTE_TOKENS) THEN <<TRUE, SingleBytes[index + 1]>> ELSE <<TRUE, <<>>>>

\* get_token: SINGLE_BYTE_TOKENS.get(index); <<FALSE, <<>>>> stands for None.
get_token(index) ==
  IF index < Len(SINGLE_BYTE_TOKENS) THEN <<TRUE, SingleBytes[index + 1]>> ELSE <<FALSE, <<>>>>

\* get_double_token: DOUBLE_BYTE_TOKENS.get(dict).and_then(|t| t.get(index)).
get_double_token(dict, index) ==
  IF dict < Len(DOUBLE_BYTE_TOKENS) /\ index < Len(DOUBLE_BYTE_TOKENS[dict + 1])
  THEN <<TRUE, Utf8(DOUBLE_BYTE_TOKENS[dict + 1][index + 1])>>
  ELSE <<FALSE, <<>>>>

\* ------------------------------------------------------------------------
\* Node, AttrValue, JID (src/binary/node.rs, src/types/jid.rs)
\* ------------------------------------------------------------------------

AttrNone      == [kind |-> "None"]
AttrString(s) == [kind |-> "String", s |-> s]
AttrBytes(b)  == [kind |-> "Bytes", b |-> b]
AttrInt(n)    == [kind |-> "Int", n |-> n]
AttrBool(b)   == [kind |-> "Bool", v |-> b]
AttrJID(j)    == [kind |-> "JID", jid |-> j]

ContentNone         == [kind |-> "None"]
ContentChildren(cs) == [kind |-> "Children", nodes |-> cs]
ContentBytes(b)     == [kind |-> "Bytes", b |-> b]

MkNode(tag, attrs, content) == [tag |-> tag, attrs |-> attrs, content |-> content]

\* The empty attribute map, and a map with the given <<key, value>> pairs.
NoAttrs == [k \in {} |-> AttrNone]
Attrs1(k, v) == [x \in {k} |-> v]
Attrs2(k1, v1, k2, v2) == [x \in {k1, k2} |-> IF x = k1 THEN v1 ELSE v2]

\* HashMap::insert: a later value replaces an earlier one under the same key.
AttrsInsert(m, k, v) == [x \in DOMAIN m \cup {k} |-> IF x = k THEN v ELSE m[x]]

\* JID::new
JID_new(user, server) ==
  [user |-> user, raw_agent |-> 0, device |-> 0, integrator |-> 0, server |-> server]

\* JID::new_ad: the agent byte selects the server; only an agent that names no
\* domain is kept as raw_agent.
JID_new_ad(user, agent, device) ==
  LET sel == IF agent = 1 THEN <<Utf8("lid"), 0>>
             ELSE IF agent = 128 THEN <<Utf8("hosted"), 0>>
             ELSE IF agent = 129 THEN <<Utf8("hosted.lid"), 0>>
             ELSE <<Utf8("s.whatsapp.net"), agent>>
  IN  [user |-> user, raw_agent |-> sel[2], device |-> device, integrator |-> 0,
       server |-> sel[1]]

\* ------------------------------------------------------------------------
\* Encoder (src/binary/encoder.rs)
\* ------------------------------------------------------------------------

\* Encoder::write_int: one, two or three bytes, chosen by the value alone.
write_int(n) ==
  IF n < 256 THEN <<n>>
  ELSE IF n < 65536 THEN <<(n \div 256) % 256, n % 256>>
  ELSE <<(n \div 65536) % 256, (n \div 256) % 256, n % 256>>

\* Encoder::write_string
write_string(s) ==
  IF Len(s) = 0 THEN <<252>>
  ELSE IF get_token_index(s) # NoToken THEN <<get_token_index(s)>>
  ELSE IF Len(s) < 256 THEN <<252, Len(s)>> \o s
  ELSE IF Len(s) < 65536 THEN <<253, (Len(s) \div 256) % 256, Len(s) % 256>> \o s
  ELSE <<254, (Len(s) \div 65536) % 256, (Len(s) \div 256) % 256, Len(s) % 256>> \o s

\* write_jid that always writes the user/server form.
write_jid_plain(jid) ==
  <<249>> \o write_string(jid.user) \o write_string(jid.server)

\* Encoder::write_jid
write_jid(jid) ==
  IF jid.raw_agent > 0 \/ jid.device > 0
  THEN <<250, jid.raw_agent, jid.device % 256>> \o write_string(jid.user)
  ELSE <<249>> \o write_string(jid.user) \o write_string(jid.server)

\* i64::to_string, as bytes.
RECURSIVE Digits(_)
Digits(n) == IF n < 10 THEN <<48 + n>> ELSE Digits(n \div 10) \o <<48 + (n % 10)>>
to_string(n) == IF n < 0 THEN <<45>> \o Digits(-n) ELSE Digits(n)

\* Encoder::write_attr_value
write_attr_value(v) ==
  CASE v.kind = "None"   -> <<0>>
    [] v.kind = "String" -> write_string(v.s)
    [] v.kind = "Bytes"  -> <<255>> \o write_int(Len(v.b)) \o v.b
    [] v.kind = "Int"    -> write_string(to_string(v.n))
    [] v.kind = "Bool"   -> write_string(IF v.v THEN Utf8("true") ELSE Utf8("false"))
    [] v.kind = "JID"    -> write_jid(v.jid)

\* The order in which `for (key, value) in &node.attrs` visits a HashMap: some
\* enumeration of the keys, fixed by the hasher's seed.
AttrOrder(attrs, sd) ==
  LET n == Cardinality(DOMAIN attrs)
      p == CHOOSE q \in [1..n -> DOMAIN attrs] : \A k \in DOMAIN attrs : \E i \in 1..n : q[i] = k
  IN  IF sd THEN p ELSE [i \in 1..n |-> p[n + 1 - i]]

RECURSIVE ConcatAll(_)
ConcatAll(ss) == IF Len(ss) = 0 THEN <<>> ELSE Head(ss) \o ConcatAll(Tail(ss))

\* The header byte of write_node:
\* `((num_attrs << 1) | (if has_content { 1 } else { 0 })) as u8`.
node_header(num_attrs, has_content) ==
  ((num_attrs * 2) + (IF has_content THEN 1 ELSE 0)) % 256

\* Encoder::write_node
RECURSIVE write_node(_, _)
write_node(nd, sd) ==
  LET num_attrs   == Cardinality(DOMAIN nd.attrs)
      has_content == nd.content.kind # "None"
      header      == node_header(num_attrs, has_content)
      order       == AttrOrder(nd.attrs, sd)
      pairs       == ConcatAll([i \in 1..num_attrs |->
                        write_string(order[i]) \o write_attr_value(nd.attrs[order[i]])])
      content     == CASE nd.content.kind = "None" -> <<>>
                       [] nd.content.kind = "Children" ->
                            <<248>> \o write_int(Len(nd.content.nodes))
                            \o ConcatAll([i \in 1..Len(nd.content.nodes) |->
                                             write_node(nd.content.nodes[i], sd)])
                       [] nd.content.kind = "Bytes" ->
                            <<255>> \o write_int(Len(nd.content.b)) \o nd.content.b
  IN  <<header>> \o write_string(nd.tag) \o pairs \o content

\* Encoder::encode
encode(nd, sd) == write_node(nd, sd)

\* ------------------------------------------------------------------------
\* Decoder (src/binary/decoder.rs)
\*
\* Every read takes the buffer and the read index and returns a Result:
\* err = "" for Ok(val), the error text otherwise; index is the decoder's
\* index after the call.  The three primitives also report in `at` the
\* buffer positions (0-based) they read.
\* ------------------------------------------------------------------------

DOk(v, i)  == [err |-> "", val |-> v, index |-> i]
DErr(e, i) == [err |-> e, val |-> <<>>, index |-> i]

EndOfData == "unexpected end of data"

\* read_byte without its end check: a byte past the end reads as 0.
read_byte_unchecked(data, index) ==
  [err |-> "", val |-> IF index < Len(data) THEN data[index + 1] ELSE 0,
   index |-> index + 1, at |-> {index}]

\* Decoder::read_byte
read_byte(data, index) ==
  IF index >= Len(data)
  THEN [err |-> EndOfData, val |-> <<>>, index |-> index, at |-> {}]
  ELSE [err |-> "", val |-> data[index + 1], index |-> index + 1, at |-> {index}]

\* read_bytes without its length check: the bytes past the end read as 0.
read_bytes_unchecked(data, index, n) ==
  [err |-> "", val |-> [i \in 1..n |-> IF index + i <= Len(data) THEN data[index + i] ELSE 0],
   index |-> index + n, at |-> index..(index + n - 1)]

\* read_bytes that hands back the bytes there are when fewer than n are left.
read_bytes_clamped(data, index, n) ==
  [err |-> "", val |-> SubSeq(data, index + 1, IF index + n > Len(data) THEN Len(data) ELSE index + n),
   index |-> IF index + n > Len(data) THEN Len(data) ELSE index + n,
   at |-> index..((IF index + n > Len(data) THEN Len(data) ELSE index + n) - 1)]

\* Decoder::read_bytes
read_bytes(data, index, n) ==
  IF index + n > Len(data)
  THEN [err |-> EndOfData, val |-> <<>>, index |-> index, at |-> {}]
  ELSE [err |-> "", val |-> SubSeq(data, index + 1, index + n), index |-> index + n,
        at |-> index..(index + n - 1)]

\* Decoder::read_int: `bytes` calls of read_byte, most significant byte first.
RECURSIVE read_int_loop(_, _, _, _, _)
read_int_loop(data, index, left, result, at) ==
  IF left = 0 THEN [err |-> "", val |-> result, index |-> index, at |-> at]
  ELSE LET r == read_byte(data, index)
       IN  IF r.err # "" THEN [r EXCEPT !.at = at]
           ELSE read_int_loop(data, r.index, left - 1, result * 256 + r.val, at \cup r.at)

read_int(data, index, bytes) == read_int_loop(data, index, bytes, 0, {})

\* The `?` operator: an Err returns from the enclosing function at once, an
\* Ok hands its value and the index after it to the rest of the function.
Try(r, Rest(_)) == IF r.err # "" THEN DErr(r.err, r.index) ELSE Rest(r)

\* String::from_utf8(bytes).map_err(..)
from_utf8(r) ==
  IF r.err # "" THEN DErr(r.err, r.index)
  ELSE IF ValidUtf8(r.val) THEN DOk(r.val, r.index)
  ELSE DErr("invalid utf8", r.index)

\* A length just read, as the Ok(usize) of the enclosing match arm.
AsLen(l) == DOk(l.val, l.index)

\* Some(token) or the given error.
TokenOr(t, e, index) == IF t[1] THEN DOk(t[2], index) ELSE DErr(e, index)

\* Decoder::read_string
read_string(data, index, tag) ==
  CASE tag = 0 -> DOk(<<>>, index)
    [] tag = 252 ->
         Try(read_byte(data, index),
             LAMBDA l : IF l.val = 0 THEN DOk(<<>>, l.index)
                        ELSE from_utf8(read_bytes(data, l.index, l.val)))
    [] tag = 253 ->
         Try(read_int(data, index, 2),
             LAMBDA l : from_utf8(read_bytes(data, l.index, l.val)))
    [] tag = 254 ->
         Try(read_int(data, index, 3),
             LAMBDA l : from_utf8(read_bytes(data, l.index, l.val)))
    [] tag >= 236 /\ tag <= 239 ->
         Try(read_byte(data, index),
             LAMBDA x : TokenOr(get_double_token(tag - 236, x.val), "unknown double token", x.index))
    [] OTHER -> TokenOr(get_token(tag), "unknown token", index)

\* read_byte, then read_string on the byte read (the marker-then-string idiom).
read_marked_string(data, index) ==
  Try(read_byte(data, index), LAMBDA m : read_string(data, m.index, m.val))

\* Decoder::read_jid
read_jid(data, index, marker) ==
  CASE marker = 249 ->
         Try(read_marked_string(data, index), LAMBDA user :
         Try(read_marked_string(data, user.index), LAMBDA server :
           DOk(JID_new(user.val, server.val), server.index)))
    [] marker = 250 ->
         Try(read_byte(data, index), LAMBDA agent :
         Try(read_byte(data, agent.index), LAMBDA device :
         Try(read_marked_string(data, device.index), LAMBDA user :
           DOk(JID_new_ad(user.val, agent.val, device.val), user.index))))
    [] OTHER -> DErr("invalid JID marker", index)

\* The length forms after a bytes marker: the marker byte itself below 252,
\* or 0xFC / 0xFD / 0xFE with a 1-, 2- or 3-byte length.
read_len_by_marker(data, index, marker, inline, e) ==
  CASE marker = 252 -> Try(read_byte(data, index), AsLen)
    [] marker = 253 -> Try(read_int(data, index, 2), AsLen)
    [] marker = 254 -> Try(read_int(data, index, 3), AsLen)
    [] inline /\ marker < 252 -> DOk(marker, index)
    [] OTHER -> DErr(e, index)

\* The length that follows a bytes marker in an attribute value.
read_attr_bytes_len(data, index) ==
  Try(read_byte(data, index),
      LAMBDA t : read_len_by_marker(data, t.index, t.val, TRUE, "invalid length marker"))

\* Decoder::read_attr_value
read_attr_value(data, index) ==
  Try(read_byte(data, index), LAMBDA t :
    IF t.val = 0 THEN DOk(AttrNone, t.index)
    ELSE IF t.val = 249 \/ t.val = 250
         THEN Try(read_jid(data, t.index, t.val), LAMBDA j : DOk(AttrJID(j.val), j.index))
    ELSE IF t.val = 255
         THEN Try(read_attr_bytes_len(data, t.index), LAMBDA l :
              Try(read_bytes(data, l.index, l.val), LAMBDA b : DOk(AttrBytes(b.val), b.index)))
    ELSE Try(read_string(data, t.index, t.val), LAMBDA s : DOk(AttrString(s.val), s.index)))

\* Decoder::read_list_size
read_list_size(data, index, token) ==
  CASE token = 0 -> DOk(0, index)
    [] token = 248 -> Try(read_byte(data, index), AsLen)
    [] token = 249 -> Try(read_int(data, index, 2), AsLen)
    [] OTHER -> DErr("expected list token (f8/f9)", index)

\* The attribute loop of read_node: `left` more (key, value) pairs into `attrs`.
RECURSIVE read_attrs(_, _, _, _)
read_attrs(data, index, left, attrs) ==
  IF left = 0 THEN DOk(attrs, index)
  ELSE Try(read_marked_string(data, index), LAMBDA key :
       Try(read_attr_value(data, key.index), LAMBDA value :
         read_attrs(data, value.index, left - 1, AttrsInsert(attrs, key.val, value.val))))

\* The bytes branch of read_node's content: 0xFF has no length form of its own.
read_content_bytes(data, index, marker) ==
  Try(read_len_by_marker(data, index, marker, FALSE, "invalid bytes length"), LAMBDA l :
  Try(read_bytes(data, l.index, l.val), LAMBDA b : DOk(ContentBytes(b.val), b.index)))

\* Decoder::read_node, with the children loop and the content match of it.
RECURSIVE read_node(_, _), read_children(_, _, _, _)
read_children(data, index, left, children) ==
  IF left = 0 THEN DOk(ContentChildren(children), index)
  ELSE Try(read_node(data, index), LAMBDA c :
         read_children(data, c.index, left - 1, Append(children, c.val)))

read_content(data, index, cm) ==
  IF cm = 248 \/ cm = 249
  THEN Try(read_list_size(data, index, cm), LAMBDA len :
         read_children(data, len.index, len.val, <<>>))
  ELSE IF cm \in {255, 252, 253, 254} THEN read_content_bytes(data, index, cm)
  ELSE Try(read_string(data, index, cm), LAMBDA s : DOk(ContentBytes(s.val), s.index))

read_node(data, index) ==
  Try(read_byte(data, index), LAMBDA token :
  Try(read_list_size(data, token.index, token.val), LAMBDA size :
    IF size.val = 0 THEN DErr("invalid empty list for node", size.index)
    ELSE
    Try(read_marked_string(data, size.index), LAMBDA tag :
    Try(read_attrs(data, tag.index, (size.val - 1) \div 2, NoAttrs), LAMBDA attrs :
      IF (size.val - 1) % 2 # 1
      THEN DOk(MkNode(tag.val, attrs.val, ContentNone), attrs.index)
      ELSE
      Try(read_byte(data, attrs.index), LAMBDA cm :
      Try(read_content(data, cm.index, cm.val), LAMBDA content :
        DOk(MkNode(tag.val, attrs.val, content.val), content.index)))))))

\* Decoder::decode without the check for leftover bytes.
decode_lenient(data) ==
  Try(read_node(data, 0), LAMBDA n : DOk(n.val, n.index))

\* Decoder::decode: one node, then nothing may be left over.
decode(data) ==
  Try(read_node(data, 0), LAMBDA n :
    IF n.index # Len(data) THEN DErr("leftover bytes after decoding", n.index)
    ELSE DOk(n.val, n.index))
\* ------------------------------------------------------------------------
\* Codec: inputs and operations
\* ------------------------------------------------------------------------

MaxChildren == 2   \* children per node in the enumerated inputs
MaxData     == 3   \* length of the raw buffers handed to the read primitives

NoResult == [err |-> "not called", val |-> <<>>, index |-> 0]
NoDecoder ==
  [data |-> <<>>, index |-> 0,
   last |-> [op |-> "none", n |-> 0, from |-> 0, err |-> "", at |-> {}]]

\* Decoder::new
Decoder_new(data) ==
  [data |-> data, index |-> 0,
   last |-> [op |-> "new", n |-> 0, from |-> 0, err |-> "", at |-> {}]]

Tags == {Utf8("message"), Utf8("x")}
Keys == {Utf8("id"), Utf8("k")}
JidPlain == JID_new(Utf8("123"), Utf8("s.whatsapp.net"))
JidAD    == JID_new_ad(Utf8("123"), 0, 2)
Values ==
  {AttrNone, AttrString(Utf8("text")), AttrString(Utf8("zz")), AttrBytes(<<1, 2>>),
   AttrJID(JidPlain), AttrJID(JidAD)}

AttrMaps ==
  {NoAttrs}
  \cup {Attrs1(k, v) : k \in Keys, v \in Values}
  \cup {Attrs2(Utf8("id"), v1, Utf8("k"), v2) : v1 \in Values, v2 \in Values}

ChildNodes ==
  {MkNode(Utf8("body"), NoAttrs, ContentBytes(<<104, 105>>)),
   MkNode(Utf8("x"), Attrs1(Utf8("id"), AttrString(Utf8("zz"))), ContentNone)}

ChildLists == UNION {[1..n -> ChildNodes] : n \in 0..MaxChildren}

Contents ==
  {ContentNone, ContentBytes(<<>>), ContentBytes(<<7>>)}
  \cup {ContentChildren(cs) : cs \in ChildLists}

\* Well-formed nodes: non-empty tag, unique keys, one content variant.
Nodes == {MkNode(t, a, c) : t \in Tags, a \in AttrMaps, c \in Contents}

ByteSample == {0, 1, 248, 252}
DataSamples == UNION {[1..n -> ByteSample] : n \in 0..MaxData}

\* Byte strings in the layout read_node reads: a list token and size, the tag,
\* the attribute pairs, the content.
\*   WireBytes    <x> with the 2-byte content "hi" behind a 2-byte length
\*   WirePlainJid <x k=JID> with the JID in the user/server form
\*   WireAdJid    <x k=JID> with the JID in the agent/device form
WireBytes    == <<248, 2, 252, 1, 120, 253, 0, 2, 104, 105>>
WirePlainJid == <<248, 3, 252, 1, 120, 252, 1, 107, 249, 252, 3, 49, 50, 51, 252, 1, 115>>
WireAdJid    == <<248, 3, 252, 1, 120, 252, 1, 107, 250, 1, 2, 252, 3, 49, 50, 51>>
WireSamples  == {WireBytes, WirePlainJid, WireAdJid}

\* JIDs handed to the encoder: the two in Values, a server JID with no user,
\* a LID user's device, a raw agent, and a device number above 255.
NoJid == <<>>
Jids ==
  {JidPlain, JidAD,
   JID_new(<<>>, Utf8("s.whatsapp.net")),
   JID_new_ad(Utf8("123"), 1, 0),
   JID_new_ad(Utf8("123"), 1, 2),
   JID_new_ad(Utf8("123"), 5, 0),
   [JidAD EXCEPT !.device = 300]}

\* Token tables by number: 0 is SINGLE_BYTE_TOKENS, 1..4 are the dictionaries
\* DOUBLE_BYTE_TOKENS[0..3].  Forward is get_token / get_double_token.
NoTok == <<>>
Tables == 0..4
Forward(table, index) ==
  IF table = 0 THEN get_token(index) ELSE get_double_token(table - 1, index)
TableLen(table) ==
  IF table = 0 THEN Len(SINGLE_BYTE_TOKENS) ELSE Len(DOUBLE_BYTE_TOKENS[table])

\* The second byte handed to read_string after a marker byte.
IndexSample == {0, 3, 4, 57, 58, 60, 255}

InitCodecIdle ==
  /\ node = MkNode(Utf8("x"), NoAttrs, ContentNone)
  /\ seed = TRUE
  /\ encoded = <<>>
  /\ decoded = NoResult
  /\ dec = NoDecoder
  /\ fed = <<>>
  /\ jidTrip = NoJid
  /\ tok = NoTok

InitCodec ==
  \/ /\ node \in Nodes
     /\ seed \in BOOLEAN
     /\ encoded = <<>>
     /\ decoded = NoResult
     /\ dec = NoDecoder
     /\ fed = <<>>
     /\ jidTrip = NoJid
     /\ tok = NoTok
  \/ /\ node = MkNode(Utf8("x"), NoAttrs, ContentNone)
     /\ seed = TRUE
     /\ encoded = <<>>
     /\ decoded = NoResult
     /\ \E d \in DataSamples \cup WireSamples : dec = Decoder_new(d)
     /\ fed = <<>>
     /\ jidTrip = NoJid
     /\ tok = NoTok

\* encode(&node)
Encode ==
  /\ dec = NoDecoder
  /\ jidTrip = NoJid
  /\ encoded = <<>>
  /\ encoded' = encode(node, seed)
  /\ UNCHANGED <<node, seed, decoded, dec, fed, jidTrip, tok, hsVars, trVars, appVars>>

\* decode(&encoded)
Decode ==
  /\ encoded # <<>>
  /\ decoded = NoResult
  /\ fed' = encoded
  /\ decoded' = decode(encoded)
  /\ UNCHANGED <<node, seed, encoded, dec, jidTrip, tok, hsVars, trVars, appVars>>

\* One call of a read primitive on the Decoder.
DecStep(op, n, r) ==
  /\ dec.last.op # "none"
  /\ dec' = [dec EXCEPT !.index = r.index,
                     !.last = [op |-> op, n |-> n, from |-> dec.index,
                               err |-> r.err, at |-> r.at]]

DecReadByte ==
  /\ DecStep("read_byte", 1, read_byte(dec.data, dec.index))
  /\ UNCHANGED <<node, seed, encoded, decoded, fed, jidTrip, tok, hsVars, trVars, appVars>>

DecReadBytes ==
  /\ \E n \in 0..(MaxData + 1) : DecStep("read_bytes", n, read_bytes(dec.data, dec.index, n))
  /\ UNCHANGED <<node, seed, encoded, decoded, fed, jidTrip, tok, hsVars, trVars, appVars>>

DecReadInt ==
  /\ \E n \in 1..3 : DecStep("read_int", n, read_int(dec.data, dec.index, n))
  /\ UNCHANGED <<node, seed, encoded, decoded, fed, jidTrip, tok, hsVars, trVars, appVars>>

\* decode(data) on the raw bytes the Decoder was built over.
DecodeRaw ==
  /\ dec.last.op = "new"
  /\ decoded = NoResult
  /\ fed' = dec.data
  /\ decoded' = decode(dec.data)
  /\ UNCHANGED <<node, seed, encoded, dec, jidTrip, tok, hsVars, trVars, appVars>>

\* The bytes a caller holds: encode's output once encode has run, else the raw
\* buffer.
Held == IF encoded # <<>> THEN encoded ELSE dec.data

\* decode(data ++ [0x00]) for the bytes held.
DecodeTrailing ==
  /\ encoded # <<>> \/ dec.last.op = "new"
  /\ decoded = NoResult
  /\ fed' = Held \o <<0>>
  /\ decoded' = decode(Held \o <<0>>)
  /\ UNCHANGED <<node, seed, encoded, dec, jidTrip, tok, hsVars, trVars, appVars>>

\* decode(&data[..n]) for a proper prefix of the bytes held.
DecodePrefix ==
  /\ encoded # <<>> \/ dec.last.op = "new"
  /\ decoded = NoResult
  /\ \E n \in 0..(Len(Held) - 1) :
       /\ fed' = SubSeq(Held, 1, n)
       /\ decoded' = decode(SubSeq(Held, 1, n))
  /\ UNCHANGED <<node, seed, encoded, dec, jidTrip, tok, hsVars, trVars, appVars>>

\* write_attr_value(&AttrValue::JID(j)), then read_attr_value on the bytes
\* written.
WriteReadJid ==
  /\ jidTrip = NoJid
  /\ encoded = <<>> /\ decoded = NoResult /\ dec = NoDecoder
  /\ \E j \in Jids :
       jidTrip' = [given |-> j,
                   bytes |-> write_attr_value(AttrJID(j)),
                   back  |-> read_attr_value(write_attr_value(AttrJID(j)), 0)]
  /\ UNCHANGED <<node, seed, encoded, decoded, dec, fed, tok, hsVars, trVars, appVars>>

\* The forward lookup of one table entry, get_token_index on the string found
\* (the only reverse lookup there is; it answers with an index of table 0), and
\* get_token on the index it returns.
LookupToken ==
  /\ tok = NoTok
  /\ \E table \in Tables : \E index \in 0..(TableLen(table) - 1) :
       LET s   == Forward(table, index)[2]
           rev == get_token_index(s)
       IN  tok' = [op |-> "lookup", table |-> table, index |-> index, s |-> s, rev |-> rev,
                   back |-> IF rev = NoToken THEN <<FALSE, <<>>>> ELSE get_token(rev)]
  /\ UNCHANGED <<node, seed, encoded, decoded, dec, fed, jidTrip, hsVars, trVars, appVars>>

\* read_string on a marker byte followed by one more byte, and decode of the
\* node <marker> whose tag is that string.
ReadToken ==
  /\ tok = NoTok
  /\ \E marker \in 0..255 : \E index \in IndexSample :
       tok' = [op |-> "read", marker |-> marker, index |-> index,
               str  |-> read_string(<<index>>, 0, marker),
               tree |-> decode(IF marker >= 236 /\ marker <= 239
                               THEN <<248, 1, marker, index>> ELSE <<248, 1, marker>>)]
  /\ UNCHANGED <<node, seed, encoded, decoded, dec, fed, jidTrip, hsVars, trVars, appVars>>

\* Strings handed to write_string that are in no token table, and the empty
\* string.
Literals == {<<>>, Utf8("x"), Utf8("zz"), Utf8("hello-world")}

\* Every string of every token table.
TableStrings ==
  UNION {{Forward(table, index)[2] : index \in 0..(TableLen(table) - 1)} : table \in Tables}

\* Bytes that follow a written string in the buffer.
Followers == {<<>>, <<1, 120>>}

\* write_string(s), then read_byte and read_string on the bytes written
\* followed by what else the buffer holds.
WriteString ==
  /\ tok = NoTok
  /\ \E s \in TableStrings \cup Literals : \E rest \in Followers :
       tok' = [op |-> "write", s |-> s, bytes |-> write_string(s), rest |-> rest,
               back |-> read_marked_string(write_string(s) \o rest, 0)]
  /\ UNCHANGED <<node, seed, encoded, decoded, dec, fed, jidTrip, hsVars, trVars, appVars>>

NextTokens ==
  \/ LookupToken
  \/ ReadToken
  \/ WriteString

NextCodec ==
  \/ Encode
  \/ Decode
  \/ DecodeRaw
  \/ DecodeTrailing
  \/ DecodePrefix
  \/ WriteReadJid
  \/ DecReadByte
  \/ DecReadBytes
  \/ DecReadInt

\* ------------------------------------------------------------------------
\* Symbolic byte strings and cryptography
\*
\* A byte string of the handshake or the transport is a sequence of chunks,
\* each a tagged tuple of known length:
\*   <<"pub", k>>                     the 32-byte public key of private key k
\*   <<"aead", key, nonce, ad, pt>>   AES-256-GCM output: Len(pt) + 16 bytes
\*   <<"blob", n, name>>              n bytes of application data
\*   <<"junk", n, name>>              n bytes that are no output of the above
\*   <<"len3", n>>                    a 3-byte big-endian length with value n
\*   <<"proto", n, msg>>              the n-byte protobuf encoding of message msg
\*   <<"cat", bs>>                    a fixed-size array holding byte string bs
\* Hash, HKDF and DH outputs are terms over their inputs; two terms are equal
\* exactly when they were computed from equal inputs.
\* ------------------------------------------------------------------------

None    == <<>>
Some(x) == <<x>>

RECURSIVE ByteLen(_)
ChunkLen(c) ==
  CASE c[1] = "pub"  -> 32
    [] c[1] = "aead" -> ByteLen(c[5]) + 16
    [] c[1] = "blob" -> c[2]
    [] c[1] = "junk" -> c[2]
    [] c[1] = "len3" -> 3
    [] c[1] = "proto" -> c[2]
    [] c[1] = "cat"  -> ByteLen(c[2])
ByteLen(bs) == IF Len(bs) = 0 THEN 0 ELSE ChunkLen(bs[1]) + ByteLen(Tail(bs))

\* &bs[a..b] for 0 <= a <= b <= ByteLen(bs): the chunks between the two
\* offsets, or bytes without structure when an offset falls inside a chunk.
Slice(bs, a, b) ==
  LET Off(i) == ByteLen(SubSeq(bs, 1, i))
      I == {i \in 0..Len(bs) : Off(i) = a}
      J == {j \in 0..Len(bs) : Off(j) = b}
  IN  IF a = b THEN <<>>
      ELSE IF I # {} /\ J # {}
           THEN SubSeq(bs, (CHOOSE i \in I : \A x \in I : x <= i) + 1, CHOOSE j \in J : \A x \in J : j <= x)
      ELSE << <<"junk", b - a, <<bs, a>> >> >>

\* copy_from_slice into a fixed-size array, and the array read back as bytes.
AsArray(bs) == IF Len(bs) = 1 THEN bs[1] ELSE <<"cat", bs>>
ArrBytes(x) == IF x[1] = "cat" THEN x[2] ELSE <<x>>

\* KeyPair::from_private_key (src/crypto/keypair.rs)
KeyPair_from_private_key(k) == [private |-> k, public |-> <<"pub", k>>]

\* generate that stores the public key of another private key.
KeyPair_generate_detached(random) ==
  [private |-> <<"clamp", random>>, public |-> <<"pub", <<"clamp", <<random, random>>>>>>]

\* KeyPair::generate: 32 random bytes, clamped, then from_private_key.
KeyPair_generate(random) == KeyPair_from_private_key(<<"clamp", random>>)

\* KeyPair::dh / x25519: commutative in the two key pairs.
x25519(private, their_public) == <<"dh", {<<"pub", private>>, their_public}>>
KeyPair_dh(kp, their_public) == x25519(kp.private, their_public)

\* Hkdf::derive(Some(salt), ikm, b"", 64), as its two 32-byte halves.
Hkdf_derive(salt, ikm) == << <<"hkdf", salt, ikm, 1>>, <<"hkdf", salt, ikm, 2>> >>

\* SHA-256 of the previous hash followed by data.
Sha256_mix(hash, data) == <<"sha256", hash, data>>

\* AES-256-GCM
Seal(key, nonce, ad, pt) == <<"aead", key, nonce, ad, pt>>
Open(key, nonce, ad, ct) ==
  IF /\ Len(ct) = 1
     /\ ct[1][1] = "aead"
     /\ ct[1][2] = key
     /\ ct[1][3] = nonce
     /\ ct[1][4] = ad
  THEN [ok |-> TRUE, out |-> ct[1][5]]
  ELSE [ok |-> FALSE, out |-> <<>>]

\* `let x = v;` followed by the rest of a function: Rest with x bound to v.
Bind(v, Rest(_)) == Rest(v)

\* ------------------------------------------------------------------------
\* Cipher (src/crypto/cipher.rs)
\* ------------------------------------------------------------------------

\* Cipher::new
Cipher_new(key) == [key |-> key, nonce_counter |-> 0]

\* Cipher::set_nonce (reset_nonce is set_nonce(0))
Cipher_set_nonce(c, counter) == [c EXCEPT !.nonce_counter = counter]

\* next_nonce without its increment.
Cipher_next_nonce_stuck(c) ==
  [nonce  |-> Zeros(4) \o BE(c.nonce_counter, 8),
   cipher |-> c]

\* Cipher::next_nonce: the u64 counter, big-endian, in the last 8 of 12 bytes.
Cipher_next_nonce(c) ==
  [nonce  |-> Zeros(4) \o BE(c.nonce_counter, 8),
   cipher |-> [c EXCEPT !.nonce_counter = @ + 1]]

\* Cipher::encrypt. `use` records the AEAD operation: key, nonce, counter,
\* associated data.
Cipher_encrypt(c, plaintext, ad) ==
  Bind(Cipher_next_nonce(c), LAMBDA nn :
    [cipher |-> nn.cipher, ok |-> TRUE,
     out |-> <<Seal(c.key, nn.nonce, ad, plaintext)>>,
     use |-> [key |-> c.key, nonce |-> nn.nonce, n |-> c.nonce_counter, ad |-> ad]])

\* Cipher::decrypt that hands the AEAD the associated data the ciphertext was
\* sealed with instead of the caller's.
Cipher_decrypt_any_ad(c, ciphertext, ad) ==
  Bind(Cipher_next_nonce(c), LAMBDA nn :
  Bind(Open(c.key, nn.nonce,
            IF Len(ciphertext) = 1 /\ ciphertext[1][1] = "aead" THEN ciphertext[1][4] ELSE ad,
            ciphertext), LAMBDA o :
    [cipher |-> nn.cipher, ok |-> o.ok, out |-> o.out,
     use |-> [key |-> c.key, nonce |-> nn.nonce, n |-> c.nonce_counter, ad |-> ad]]))

\* Cipher::decrypt: the counter advances whether or not the tag verifies.
Cipher_decrypt(c, ciphertext, ad) ==
  Bind(Cipher_next_nonce(c), LAMBDA nn :
  Bind(Open(c.key, nn.nonce, ad, ciphertext), LAMBDA o :
    [cipher |-> nn.cipher, ok |-> o.ok, out |-> o.out,
     use |-> [key |-> c.key, nonce |-> nn.nonce, n |-> c.nonce_counter, ad |-> ad]]))

\* ------------------------------------------------------------------------
\* crypto::NoiseHandshake (src/crypto/noise.rs)
\* ------------------------------------------------------------------------

NOISE_PROTOCOL_NAME == <<"blob", 32, "Noise_XX_25519_AESGCM_SHA256">>

\* NoiseHandshake::new_initiator with initialize(); eph names the private key
\* KeyPair::generate() draws.  `uses` lists the AEAD operations performed and
\* `alive` is "live" until the object panics or is moved into split.
new_initiator(local_static, eph) ==
  [local_static     |-> local_static,
   local_ephemeral  |-> Some(KeyPair_from_private_key(eph)),
   remote_static    |-> None,
   remote_ephemeral |-> None,
   chaining_key     |-> <<"sha256", NOISE_PROTOCOL_NAME>>,
   hash             |-> <<"sha256", NOISE_PROTOCOL_NAME>>,
   cipher           |-> None,
   uses             |-> <<>>,
   alive            |-> "live"]

\* NoiseHandshake::new_responder
new_responder(local_static, eph) == new_initiator(local_static, eph)

\* NoiseHandshake::mix_hash
mix_hash(st, data) == [st EXCEPT !.hash = Sha256_mix(st.hash, data)]

\* NoiseHandshake::mix_key
mix_key(st, input) ==
  Bind(Hkdf_derive(st.chaining_key, input), LAMBDA derived :
    [st |-> [st EXCEPT !.chaining_key = derived[1]], key |-> derived[2]])

\* NoiseHandshake::encrypt_and_hash
encrypt_and_hash(st, plaintext) ==
  IF st.cipher = None THEN [st |-> st, ok |-> FALSE, out |-> <<>>]
  ELSE Bind(Cipher_encrypt(st.cipher[1], plaintext, st.hash), LAMBDA e :
         [st  |-> mix_hash([st EXCEPT !.cipher = Some(e.cipher), !.uses = Append(@, e.use)], e.out),
          ok  |-> TRUE,
          out |-> e.out])

\* decrypt_and_hash that mixes the plaintext into the hash.
decrypt_and_hash_plaintext(st, ciphertext) ==
  IF st.cipher = None THEN [st |-> st, ok |-> FALSE, out |-> <<>>]
  ELSE Bind(Cipher_decrypt(st.cipher[1], ciphertext, st.hash), LAMBDA d :
       Bind([st EXCEPT !.cipher = Some(d.cipher), !.uses = Append(@, d.use)], LAMBDA s :
         IF d.ok THEN [st |-> mix_hash(s, d.out), ok |-> TRUE, out |-> d.out]
         ELSE [st |-> s, ok |-> FALSE, out |-> <<>>]))

\* NoiseHandshake::decrypt_and_hash
decrypt_and_hash(st, ciphertext) ==
  IF st.cipher = None THEN [st |-> st, ok |-> FALSE, out |-> <<>>]
  ELSE Bind(Cipher_decrypt(st.cipher[1], ciphertext, st.hash), LAMBDA d :
       Bind([st EXCEPT !.cipher = Some(d.cipher), !.uses = Append(@, d.use)], LAMBDA s :
         IF d.ok THEN [st |-> mix_hash(s, ciphertext), ok |-> TRUE, out |-> d.out]
         ELSE [st |-> s, ok |-> FALSE, out |-> <<>>]))

\* The Err(e) of a handshake step that leaves the state as st.
StepErr(st, e) == [st |-> st, res |-> e, out |-> <<>>]

\* self.cipher = Some(Cipher::new(key)) on the result of mix_key.
WithCipher(mk) == [mk.st EXCEPT !.cipher = Some(Cipher_new(mk.key))]

\* NoiseHandshake::write_message_1
write_message_1(st) ==
  Bind(st.local_ephemeral[1].public, LAMBDA ephemeral_public :
    [st |-> mix_hash(st, <<ephemeral_public>>), res |-> "Ok", out |-> <<ephemeral_public>>])

\* NoiseHandshake::read_message_2.  res is "Ok", the HandshakeError returned, or
\* "panic" when &message[32..80] is out of range.
read_message_2(st, message) ==
  IF ByteLen(message) < 32 THEN StepErr(st, "MessageTooShort")
  ELSE
  Bind(AsArray(Slice(message, 0, 32)), LAMBDA remote_e :
  Bind(mix_hash([st EXCEPT !.remote_ephemeral = Some(remote_e)], ArrBytes(remote_e)), LAMBDA s1 :
  Bind(WithCipher(mix_key(s1, KeyPair_dh(s1.local_ephemeral[1], remote_e))), LAMBDA s2 :
    IF ByteLen(message) < 80
    THEN [st |-> [s2 EXCEPT !.alive = "panicked"], res |-> "panic", out |-> <<>>]
    ELSE
    Bind(decrypt_and_hash(s2, Slice(message, 32, 80)), LAMBDA d1 :
      IF ~d1.ok THEN StepErr(d1.st, "DecryptionFailed")
      ELSE IF ByteLen(d1.out) # 32 THEN StepErr(d1.st, "InvalidKeySize")
      ELSE
      Bind(AsArray(d1.out), LAMBDA remote_static :
      Bind(WithCipher(mix_key([d1.st EXCEPT !.remote_static = Some(remote_static)],
                              KeyPair_dh(s1.local_ephemeral[1], remote_static))), LAMBDA s4 :
      Bind(decrypt_and_hash(s4, Slice(message, 80, ByteLen(message))), LAMBDA d2 :
        IF ~d2.ok THEN StepErr(d2.st, "DecryptionFailed")
        ELSE [st |-> d2.st, res |-> "Ok", out |-> d2.out])))))))

\* NoiseHandshake::write_message_3
write_message_3(st, payload) ==
  Bind(encrypt_and_hash(st, <<st.local_static.public>>), LAMBDA e1 :
    IF ~e1.ok THEN StepErr(e1.st, "EncryptionFailed")
    ELSE IF e1.st.remote_ephemeral = None THEN StepErr(e1.st, "MissingRemoteKey")
    ELSE
    Bind(WithCipher(mix_key(e1.st, KeyPair_dh(e1.st.local_static, e1.st.remote_ephemeral[1]))), LAMBDA s2 :
    Bind(encrypt_and_hash(s2, payload), LAMBDA e2 :
      IF ~e2.ok THEN StepErr(e2.st, "EncryptionFailed")
      ELSE [st |-> e2.st, res |-> "Ok", out |-> e1.out \o e2.out])))

\* NoiseHandshake::split: (send, recv) from the two halves, in this order on
\* whichever side calls it.
split(st) ==
  Bind(Hkdf_derive(st.chaining_key, <<>>), LAMBDA derived :
    [send |-> Cipher_new(derived[1]), recv |-> Cipher_new(derived[2])])

\* ------------------------------------------------------------------------
\* The peer of crypto::NoiseHandshake
\*
\* The repository has no responder-side message processing, so message 2 is
\* built here as read_message_2 consumes it: e, then s encrypted under the
\* ee key, then the payload encrypted under the es key.
\* ------------------------------------------------------------------------

ServerEphemeral == KeyPair_from_private_key("eS")
ServerStatic    == KeyPair_from_private_key("sS")
ServerPayload   == << <<"blob", 16, "server_payload">> >>
ClientPayload   == << <<"blob", 16, "client_payload">> >>

PeerMessage2(remote_e) ==
  LET h0  == <<"sha256", NOISE_PROTOCOL_NAME>>
      h1  == Sha256_mix(h0, <<remote_e>>)
      h2  == Sha256_mix(h1, <<ServerEphemeral.public>>)
      d1  == Hkdf_derive(h0, KeyPair_dh(ServerEphemeral, remote_e))
      c_s == Seal(d1[2], Zeros(12), h2, <<ServerStatic.public>>)
      h3  == Sha256_mix(h2, <<c_s>>)
      d2  == Hkdf_derive(d1[1], KeyPair_dh(ServerStatic, remote_e))
      c_p == Seal(d2[2], Zeros(12), h3, ServerPayload)
  IN  <<ServerEphemeral.public, c_s, c_p>>

\* Message m with chunk i replaced by as many bytes of noise.
Tamper(m, i) == [m EXCEPT ![i] = <<"junk", ChunkLen(m[i]), <<"tampered">>>>]

\* ------------------------------------------------------------------------
\* Calls on two crypto::NoiseHandshake objects, in any order a caller of the
\* public API can make them.
\* ------------------------------------------------------------------------

MaxCalls == 5

Peers == {"I", "R"}

LocalStatic(p) == KeyPair_from_private_key(IF p = "I" THEN "sI" ELSE "sR")

WaIdle ==
  [fn |-> "", res |-> "", uses |-> <<>>, keys |-> None, hash |-> <<>>, sent |-> <<>>,
   recvd |-> <<>>, decoded |-> None]

InitHandshake ==
  /\ hs = [p \in Peers |-> IF p = "I" THEN new_initiator(LocalStatic(p), "eI")
                                       ELSE new_responder(LocalStatic(p), "eR")]
  /\ hsLog = [p \in Peers |-> <<>>]
  /\ splitOut = [p \in Peers |-> None]
  /\ net = {}
  /\ wa = WaIdle

Calls == Len(hsLog["I"]) + Len(hsLog["R"])

CanCall(p) == wa.fn = "" /\ hs[p].alive = "live" /\ Calls < MaxCalls

\* The call log of p with one more entry; len is the length of the message a
\* read was given, 0 for the other calls.
Logged(p, op, res, len) ==
  [hsLog EXCEPT ![p] = Append(@, [op |-> op, res |-> res, len |-> len])]

\* What can arrive at p: anything written to the network, the peer's answer
\* to p's message 1 (intact, or with its static or payload part damaged), and
\* short noise.
Inbound(p) ==
  LET e == hs[p].local_ephemeral[1].public
      m == PeerMessage2(e)
  IN  net
      \cup (IF <<e>> \in net THEN {m, Tamper(m, 2), Tamper(m, 3)} ELSE {})
      \cup {<< <<"junk", 20, <<"short">>>> >>}

HsWriteMessage1(p) ==
  /\ CanCall(p)
  /\ LET r == write_message_1(hs[p])
     IN  /\ hs' = [hs EXCEPT ![p] = r.st]
         /\ hsLog' = Logged(p, "write_message_1", r.res, 0)
         /\ net' = net \cup {r.out}
  /\ UNCHANGED <<splitOut, wa, codecVars, trVars, appVars>>

HsReadMessage2(p) ==
  /\ CanCall(p)
  /\ \E message \in Inbound(p) :
       LET r == read_message_2(hs[p], message)
       IN  /\ hs' = [hs EXCEPT ![p] = r.st]
           /\ hsLog' = Logged(p, "read_message_2", r.res, ByteLen(message))
  /\ UNCHANGED <<splitOut, net, wa, codecVars, trVars, appVars>>

HsWriteMessage3(p) ==
  /\ CanCall(p)
  /\ LET r == write_message_3(hs[p], ClientPayload)
     IN  /\ hs' = [hs EXCEPT ![p] = r.st]
         /\ hsLog' = Logged(p, "write_message_3", r.res, 0)
         /\ net' = IF r.res = "Ok" THEN net \cup {r.out} ELSE net
  /\ UNCHANGED <<splitOut, wa, codecVars, trVars, appVars>>

HsSplit(p) ==
  /\ CanCall(p)
  /\ hs' = [hs EXCEPT ![p].alive = "moved"]
  /\ splitOut' = [splitOut EXCEPT ![p] = Some(split(hs[p]))]
  /\ hsLog' = Logged(p, "split", "Ok", 0)
  /\ UNCHANGED <<net, wa, codecVars, trVars, appVars>>

\* ------------------------------------------------------------------------
\* NoiseSocket::handshake (src/socket/mod.rs): the whole handler, with the
\* frame received from the server as its input.
\* ------------------------------------------------------------------------

\* NoiseSocket::build_handshake_frame
build_handshake_frame(data) ==
  << <<"blob", 4, "WA60">>, <<"len3", ByteLen(data)>> >> \o data

\* NoiseSocket::parse_handshake_frame
parse_handshake_frame(data) ==
  IF ByteLen(data) < 4 THEN [ok |-> FALSE, out |-> <<>>]
  ELSE [ok |-> TRUE, out |-> Slice(data, 4, ByteLen(data))]

\* NoiseSocket::build_client_payload
build_client_payload == << <<"blob", 16, "zeros">> >>

\* What handshake returns or how it ends, with the AEAD operations and the
\* final hash of its NoiseHandshake, the ciphers it stored, the frames it
\* handed to send_raw and the message it handed to read_message_2.
SocketResult(res, st, keys, frames, msg2) ==
  [fn |-> "NoiseSocket::handshake", res |-> res, uses |-> st.uses, keys |-> keys,
   hash |-> st.hash, sent |-> frames, recvd |-> <<>>, decoded |-> msg2]

NoiseSocket_handshake(static_key, eph, response) ==
  Bind(write_message_1(new_initiator(static_key, eph)), LAMBDA w1 :
  Bind(<<build_handshake_frame(w1.out)>>, LAMBDA frame1 :
  Bind(parse_handshake_frame(response), LAMBDA msg2 :
    IF ~msg2.ok THEN SocketResult("InvalidFrame", w1.st, None, frame1, None)
    ELSE
    Bind(read_message_2(w1.st, msg2.out), LAMBDA r2 :
      IF r2.res = "panic" THEN SocketResult("panic", r2.st, None, frame1, Some(msg2.out))
      ELSE IF r2.res # "Ok" THEN SocketResult("HandshakeFailed", r2.st, None, frame1, Some(msg2.out))
      ELSE
      Bind(write_message_3(r2.st, build_client_payload), LAMBDA w3 :
        IF w3.res # "Ok" THEN SocketResult("HandshakeFailed", w3.st, None, frame1, Some(msg2.out))
        ELSE
        Bind(Append(frame1, build_handshake_frame(w3.out)), LAMBDA frames :
          IF w3.st.remote_static = None
          THEN SocketResult("HandshakeFailed", w3.st, None, frames, Some(msg2.out))
          ELSE SocketResult("Ok", w3.st, Some(split(w3.st)), frames, Some(msg2.out))))))))

\* Frames the server may answer message 1 with: 4 header bytes and message 2,
\* the same with a damaged payload, message 2 framed as the client frames its
\* own messages, message 2 after a 3-byte length, a frame that ends after 32
\* bytes, and one too short to parse.
SocketResponses(e) ==
  LET hdr == <<"blob", 4, "hdr">>
      m   == PeerMessage2(e)
  IN  { <<hdr>> \o m,
        <<hdr>> \o Tamper(m, 3),
        build_handshake_frame(m),
        << <<"len3", ByteLen(m)>> >> \o m,
        <<hdr, ServerEphemeral.public>>,
        << <<"junk", 3, <<"short">>>> >> }

SocketHandshake ==
  /\ wa.fn = "" /\ Calls = 0
  /\ \E response \in SocketResponses(KeyPair_from_private_key("eI").public) :
       wa' = [NoiseSocket_handshake(LocalStatic("I"), "eI", response) EXCEPT !.recvd = response]
  /\ UNCHANGED <<hs, hsLog, splitOut, net, codecVars, trVars, appVars>>

\* ------------------------------------------------------------------------
\* socket::handshake::NoiseHandshake and do_handshake (src/socket/handshake.rs)
\* ------------------------------------------------------------------------

NOISE_PATTERN == NOISE_PROTOCOL_NAME
WA_HEADER     == << <<"blob", 4, "WA63">> >>

\* NoiseHandshake::authenticate
authenticate(st, data) == [st EXCEPT !.hash = Sha256_mix(st.hash, data)]

\* NoiseHandshake::new
NoiseHandshake_new(header) ==
  authenticate([hash |-> NOISE_PATTERN, salt |-> NOISE_PATTERN, key |-> NOISE_PATTERN,
                counter |-> 0, uses |-> <<>>], header)

\* NoiseHandshake::generate_iv: the u32 counter, big-endian, in the last 4 bytes.
generate_iv(st) == Zeros(8) \o BE(st.counter, 4)

\* NoiseHandshake::encrypt
encrypt(st, plaintext) ==
  Bind(<<Seal(st.key, generate_iv(st), st.hash, plaintext)>>, LAMBDA ciphertext :
    [st  |-> authenticate([st EXCEPT !.counter = @ + 1,
                                     !.uses = Append(@, [key |-> st.key, nonce |-> generate_iv(st),
                                                         n |-> st.counter, ad |-> st.hash])],
                          ciphertext),
     ok  |-> TRUE,
     out |-> ciphertext])

\* NoiseHandshake::decrypt: the counter advances only when the tag verifies.
decrypt(st, ciphertext) ==
  Bind(Open(st.key, generate_iv(st), st.hash, ciphertext), LAMBDA o :
  Bind([st EXCEPT !.uses = Append(@, [key |-> st.key, nonce |-> generate_iv(st), n |-> st.counter,
                                        ad |-> st.hash])],
       LAMBDA s :
    IF o.ok THEN [st |-> authenticate([s EXCEPT !.counter = @ + 1], ciphertext),
                  ok |-> TRUE, out |-> o.out]
    ELSE [st |-> s, ok |-> FALSE, out |-> <<>>]))

\* NoiseHandshake::mix_into_key
mix_into_key(st, shared_secret) ==
  Bind(Hkdf_derive(st.salt, shared_secret), LAMBDA derived :
    [st EXCEPT !.counter = 0, !.salt = derived[1], !.key = derived[2]])

\* NoiseHandshake::mix_shared_secret
mix_shared_secret(st, priv_key, pub_key) == mix_into_key(st, x25519(priv_key, pub_key))

\* NoiseHandshake::finish
finish(st) ==
  Bind(Hkdf_derive(st.salt, <<>>), LAMBDA derived :
    [write_key |-> derived[1], read_key |-> derived[2]])

\* What do_handshake returns, with the AEAD operations and the final hash of
\* its NoiseHandshake, the frames it sent after the first, the bytes it
\* received and the bytes it handed to HandshakeMessage::decode.
HandshakeResult(res, st, keys) ==
  [fn |-> "do_handshake", res |-> res, uses |-> st.uses, keys |-> keys, hash |-> st.hash,
   sent |-> <<>>, recvd |-> <<>>, decoded |-> None]

\* The `?` on NoiseHandshake::decrypt.
TryDecrypt(d, Rest(_)) == IF ~d.ok THEN HandshakeResult("CryptoError", d.st, None) ELSE Rest(d)

\* prost's encoding of a HandshakeMessage, and HandshakeMessage::decode, which
\* accepts those bytes and nothing else of what the model receives (received
\* data that still begins with a length prefix begins with the zero high byte
\* of the length, which is no protobuf tag).
ProtoLen == 120
HandshakeMessage_encode(msg) == << <<"proto", ProtoLen, msg>> >>
HandshakeMessage_decode(bytes) ==
  IF Len(bytes) = 1 /\ bytes[1][1] = "proto"
  THEN [ok |-> TRUE, msg |-> bytes[1][3]]
  ELSE [ok |-> FALSE, msg |-> <<>>]

ClientHello(ephemeral) == [client_hello |-> Some([ephemeral |-> Some(ephemeral)])]
ClientFinish(static, payload) ==
  [client_finish |-> Some([static |-> Some(static), payload |-> Some(payload)])]

\* The first frame of do_handshake: WA_HEADER, 3-byte length, protobuf.
first_frame(msg) ==
  WA_HEADER \o << <<"len3", ByteLen(HandshakeMessage_encode(msg))>> >> \o HandshakeMessage_encode(msg)

\* The later frames of do_handshake: 3-byte length, protobuf.
handshake_frame(msg) ==
  << <<"len3", ByteLen(HandshakeMessage_encode(msg))>> >> \o HandshakeMessage_encode(msg)

\* The length field of a frame of at least 3 bytes.
frame_len(data) == data[1][2]

\* The receive loop of do_handshake: up to 10 calls of ws.next(), each within
\* its timeout.  msgs are the messages the server still sends; when there is
\* none left the next call times out.  `whole` tells whether the loop ended
\* at its break and `all` is every byte received.
RECURSIVE receive_loop(_, _, _, _)
receive_loop(msgs, attempt, response_data, len) ==
  IF attempt = 10 THEN [res |-> "", data |-> response_data, whole |-> FALSE, all |-> response_data]
  ELSE IF msgs = <<>> THEN [res |-> "Timeout", data |-> response_data, whole |-> FALSE, all |-> response_data]
  ELSE IF Head(msgs).type = "Close"
       THEN [res |-> "ConnectionFailed", data |-> response_data, whole |-> FALSE,
             all |-> response_data]
  ELSE IF Head(msgs).type # "Binary"
       THEN receive_loop(Tail(msgs), attempt + 1, response_data, len)
  ELSE
  Bind(response_data \o Head(msgs).data, LAMBDA all :
  Bind(IF len = None /\ ByteLen(all) >= 3 THEN Some(frame_len(all)) ELSE len, LAMBDA l :
    IF l # None /\ ByteLen(all) >= l[1] + 3
    THEN [res |-> "", data |-> Slice(all, 3, 3 + l[1]), whole |-> TRUE, all |-> all]
    ELSE receive_loop(Tail(msgs), attempt + 1, all, l)))

\* do_handshake from the decoded ServerHello on: hello holds the three
\* optional fields ephemeral, static and payload.
do_handshake(noise_key, ephemeral_priv, hello) ==
  Bind(authenticate(NoiseHandshake_new(WA_HEADER), << <<"pub", ephemeral_priv>> >>), LAMBDA n0 :
    IF hello.ephemeral = None \/ hello.static = None \/ hello.payload = None
    THEN HandshakeResult("InvalidResponse", n0, None)
    ELSE IF ByteLen(hello.ephemeral[1]) # 32 THEN HandshakeResult("InvalidResponse", n0, None)
    ELSE
    Bind(AsArray(hello.ephemeral[1]), LAMBDA server_eph_arr :
    TryDecrypt(decrypt(mix_shared_secret(authenticate(n0, hello.ephemeral[1]),
                                         ephemeral_priv, server_eph_arr),
                       hello.static[1]), LAMBDA d1 :
      IF ByteLen(d1.out) # 32 THEN HandshakeResult("InvalidResponse", d1.st, None)
      ELSE
      TryDecrypt(decrypt(mix_shared_secret(d1.st, ephemeral_priv, AsArray(d1.out)),
                         hello.payload[1]), LAMBDA d2 :
      Bind(encrypt(d2.st, <<noise_key.public>>), LAMBDA e1 :
      Bind(encrypt(mix_shared_secret(e1.st, noise_key.private, server_eph_arr), ClientPayload), LAMBDA e2 :
      Bind(finish(e2.st), LAMBDA k :
        [HandshakeResult("Ok", e2.st,
                         Some([write_key |-> k.write_key, read_key |-> k.read_key,
                               write_counter |-> 0, read_counter |-> 0]))
           EXCEPT !.sent = <<handshake_frame(ClientFinish(e1.out, e2.out))>>])))))))

\* The server's hello for client ephemeral e, as do_handshake consumes it.
ServerHello(e) ==
  LET h1  == Sha256_mix(Sha256_mix(NOISE_PATTERN, WA_HEADER), <<e>>)
      h2  == Sha256_mix(h1, <<ServerEphemeral.public>>)
      d1  == Hkdf_derive(NOISE_PATTERN, x25519(ServerEphemeral.private, e))
      c_s == Seal(d1[2], Zeros(12), h2, <<ServerStatic.public>>)
      h3  == Sha256_mix(h2, <<c_s>>)
      d2  == Hkdf_derive(d1[1], x25519(ServerStatic.private, e))
      c_p == Seal(d2[2], Zeros(12), h3, ServerPayload)
  IN  [ephemeral |-> Some(<<ServerEphemeral.public>>), static |-> Some(<<c_s>>), payload |-> Some(<<c_p>>)]

Hellos(e) ==
  LET h == ServerHello(e)
  IN  { h,
        [h EXCEPT !.payload = Some(<< <<"junk", 32, <<"tampered">>>> >>)],
        [h EXCEPT !.static = Some(<< <<"junk", 48, <<"tampered">>>> >>)],
        [h EXCEPT !.ephemeral = Some(<< <<"junk", 31, <<"short">>>> >>)],
        [h EXCEPT !.payload = None] }

\* do_handshake after connect_async: message 1 sent, the answer received
\* through the loop and decoded, then the cryptographic part.
do_handshake_connected(noise_key, ephemeral_priv, msgs) ==
  Bind(<<first_frame(ClientHello(<< <<"pub", ephemeral_priv>> >>))>>, LAMBDA frame1 :
  Bind(authenticate(NoiseHandshake_new(WA_HEADER), << <<"pub", ephemeral_priv>> >>), LAMBDA n0 :
  Bind(receive_loop(msgs, 0, <<>>, None), LAMBDA r :
    IF r.res # ""
    THEN [HandshakeResult(r.res, n0, None) EXCEPT !.sent = frame1, !.recvd = r.all]
    ELSE IF r.data = <<>>
    THEN [HandshakeResult("InvalidResponse", n0, None) EXCEPT !.sent = frame1, !.recvd = r.all]
    ELSE
    Bind(HandshakeMessage_decode(r.data), LAMBDA d :
      IF ~d.ok
      THEN [HandshakeResult("ProtocolError", n0, None)
              EXCEPT !.sent = frame1, !.recvd = r.all, !.decoded = Some(r.data)]
      ELSE IF d.msg.server_hello = None
      THEN [HandshakeResult("InvalidResponse", n0, None)
              EXCEPT !.sent = frame1, !.recvd = r.all, !.decoded = Some(r.data)]
      ELSE [do_handshake(noise_key, ephemeral_priv, d.msg.server_hello[1])
              EXCEPT !.sent = frame1 \o @, !.recvd = r.all, !.decoded = Some(r.data)]))))

Binary(data) == [type |-> "Binary", data |-> data]
Ping         == [type |-> "Ping", data |-> <<>>]
Close        == [type |-> "Close", data |-> <<>>]

\* n times the message m.
Times(n, m) == [i \in 1..n |-> m]

\* The ways the frame of a server message can arrive: whole, behind a ping,
\* split after the length, with bytes of a next frame behind it, cut off by
\* a close, missing its end when the server stops sending, and missing its
\* end while the server sends pings or further short pieces.
Arrivals(msg) ==
  LET prefix == << <<"len3", ProtoLen>> >>
      frame  == prefix \o HandshakeMessage_encode(msg)
      piece  == << <<"junk", 10, <<"piece">>>> >>
  IN  { <<Binary(frame)>>,
        <<Ping, Binary(frame)>>,
        <<Binary(prefix), Binary(HandshakeMessage_encode(msg))>>,
        <<Binary(frame \o << <<"junk", 5, <<"next">>>> >>)>>,
        <<Binary(prefix), Close>>,
        <<Binary(prefix)>>,
        <<>>,
        Times(10, Ping),
        Times(9, Ping) \o <<Binary(frame)>>,
        <<Binary(prefix)>> \o Times(9, Ping),
        <<Binary(prefix)>> \o Times(9, Binary(piece)),
        Times(9, Ping) \o <<Binary(prefix), Binary(HandshakeMessage_encode(msg))>> }

\* What the server sends after message 1: its hello in every way of arriving,
\* each damaged hello and a message without a server hello as whole frames.
ServerSends(e) ==
  Arrivals([server_hello |-> Some(ServerHello(e))])
  \cup {<<Binary(handshake_frame([server_hello |-> Some(hello)]))>> : hello \in Hellos(e)}
  \cup {<<Binary(handshake_frame([server_hello |-> None]))>>}

DoHandshake ==
  /\ wa.fn = "" /\ Calls = 0
  /\ \E msgs \in ServerSends(<<"pub", "eC">>) :
       wa' = do_handshake_connected(KeyPair_from_private_key("sC"), "eC", msgs)
  /\ UNCHANGED <<hs, hsLog, splitOut, net, codecVars, trVars, appVars>>

NextHandshake ==
  \/ \E p \in Peers : HsWriteMessage1(p)
  \/ \E p \in Peers : HsReadMessage2(p)
  \/ \E p \in Peers : HsWriteMessage3(p)
  \/ \E p \in Peers : HsSplit(p)
  \/ SocketHandshake
  \/ DoHandshake

\* ------------------------------------------------------------------------
\* Transport: NoiseSocket::send / recv (src/socket/mod.rs) and
\* WhatsAppConnection::send / recv (src/socket/handshake.rs)
\*
\* A frame is a byte string whose first chunk is its 3-byte length field.  A
\* recv call returns [conn, res, out, n, frames, rest]: the struct after the
\* call, the result, the plaintext, the counter the accepted frame decrypted
\* under, what was done with each websocket message read, and the messages
\* left unread.
\* ------------------------------------------------------------------------

\* The 3 low-order bytes of a length, as send writes them.
Len3(n) == <<"len3", n % Pow2(24)>>



\* NoiseSocket::send
NoiseSocket_send(sock, data) ==
  IF ~sock.handshake_complete \/ sock.send_cipher = None
  THEN [conn |-> sock, res |-> "NotConnected", frame |-> <<>>, n |-> None]
  ELSE LET e == Cipher_encrypt(sock.send_cipher[1], data, <<>>)
       IN  [conn  |-> [sock EXCEPT !.send_cipher = Some(e.cipher)],
            res   |-> "Ok",
            frame |-> <<Len3(ByteLen(e.out))>> \o e.out,
            n     |-> e.use.n]

\* NoiseSocket::recv on the next websocket message.
NoiseSocket_recv(sock, queue) ==
  LET data == Head(queue)
  IN  IF ~sock.handshake_complete
      THEN [conn |-> sock, res |-> "NotConnected", out |-> <<>>, n |-> None,
            frames |-> <<>>, rest |-> queue]
      ELSE IF ByteLen(data) < 3
      THEN [conn |-> sock, res |-> "InvalidFrame", out |-> <<>>, n |-> None,
            frames |-> <<[frame |-> data, act |-> "invalid", n |-> None]>>, rest |-> Tail(queue)]
      ELSE IF sock.recv_cipher = None
      THEN [conn |-> sock, res |-> "NotConnected", out |-> <<>>, n |-> None,
            frames |-> <<>>, rest |-> Tail(queue)]
      ELSE
      LET d == Cipher_decrypt(sock.recv_cipher[1], Slice(data, 3, ByteLen(data)), <<>>)
      IN  [conn   |-> [sock EXCEPT !.recv_cipher = Some(d.cipher)],
           res    |-> IF d.ok THEN "Ok" ELSE "DecryptionFailed",
           out    |-> d.out,
           n      |-> IF d.ok THEN d.use.n ELSE None,
           frames |-> <<[frame |-> data, act |-> IF d.ok THEN "accepted" ELSE "failed", n |-> d.use.n]>>,
           rest   |-> Tail(queue)]

\* The nonce of WhatsAppConnection::send and recv: iv[8..12] = counter, big-endian.
conn_iv(counter) == Zeros(8) \o BE(counter, 4)

\* WhatsAppConnection::send with the length field counting the plaintext only.
WhatsAppConnection_send_untagged(c, data) ==
  LET encrypted == <<Seal(c.write_key, conn_iv(c.write_counter), <<>>, data)>>
  IN  [conn  |-> [c EXCEPT !.write_counter = @ + 1],
       res   |-> "Ok",
       frame |-> <<Len3(ByteLen(data))>> \o encrypted,
       n     |-> c.write_counter]

\* WhatsAppConnection::send
WhatsAppConnection_send(c, data) ==
  LET encrypted == <<Seal(c.write_key, conn_iv(c.write_counter), <<>>, data)>>
  IN  [conn  |-> [c EXCEPT !.write_counter = @ + 1],
       res   |-> "Ok",
       frame |-> <<Len3(ByteLen(encrypted))>> \o encrypted,
       n     |-> c.write_counter]

\* WhatsAppConnection::recv: the loop over websocket messages, until it returns
\* a plaintext or no message is left and the 30 s wait times out.
RECURSIVE WhatsAppConnection_recv(_, _, _)
WhatsAppConnection_recv(c, queue, frames) ==
  IF Len(queue) = 0
  THEN [conn |-> c, res |-> "Timeout", out |-> <<>>, n |-> None, frames |-> frames, rest |-> queue]
  ELSE
  LET data == Head(queue)
      Skip(act) == WhatsAppConnection_recv(c, Tail(queue),
                     Append(frames, [frame |-> data, act |-> act, n |-> None]))
  IN  IF ByteLen(data) < 4 THEN Skip("short")
      ELSE IF frame_len(data) > 100000 \/ frame_len(data) + 3 > ByteLen(data) + 100
      THEN Skip("malformed")
      ELSE
      LET encrypted == Slice(data, 3, ByteLen(data))
      IN
      IF ByteLen(encrypted) = 0 THEN Skip("empty")
      ELSE
      LET o1 == Open(c.read_key, conn_iv(c.read_counter), <<>>, encrypted)
          o2 == Open(c.read_key, conn_iv(c.read_counter + 1), <<>>, encrypted)
      IN  IF o1.ok
          THEN [conn |-> [c EXCEPT !.read_counter = @ + 1], res |-> "Ok", out |-> o1.out,
                n |-> c.read_counter,
                frames |-> Append(frames, [frame |-> data, act |-> "accepted", n |-> c.read_counter]),
                rest |-> Tail(queue)]
          ELSE IF o2.ok
          THEN [conn |-> [c EXCEPT !.read_counter = @ + 2], res |-> "Ok", out |-> o2.out,
                n |-> c.read_counter + 1,
                frames |-> Append(frames, [frame |-> data, act |-> "retried", n |-> c.read_counter]),
                rest |-> Tail(queue)]
          ELSE WhatsAppConnection_recv([c EXCEPT !.read_counter = @ + 1], Tail(queue),
                 Append(frames, [frame |-> data, act |-> "failed", n |-> c.read_counter]))

\* ------------------------------------------------------------------------
\* Two endpoints after a handshake, A with the keys as split returns them and
\* B with the two keys exchanged, and a network that can drop the next message,
\* put a message of its own in front, or rewrite a length field.
\* ------------------------------------------------------------------------

MaxSends  == 2
MaxTamper == 2

Ends     == {"A", "B"}
Other(e) == IF e = "A" THEN "B" ELSE "A"
Kinds    == {"NoiseSocket", "WhatsAppConnection"}

TransportKeys == Hkdf_derive(<<"ck">>, <<>>)
SendKey(e) == IF e = "A" THEN TransportKeys[1] ELSE TransportKeys[2]
RecvKey(e) == SendKey(Other(e))

\* The struct each constructor leaves: NoiseSocket::handshake (mod.rs) and
\* do_handshake (handshake.rs).
Established(k, e) ==
  IF k = "NoiseSocket"
  THEN [send_cipher |-> Some(Cipher_new(SendKey(e))), recv_cipher |-> Some(Cipher_new(RecvKey(e))),
        handshake_complete |-> TRUE]
  ELSE [write_key |-> SendKey(e), read_key |-> RecvKey(e), write_counter |-> 0, read_counter |-> 0]

SendCounter(e) ==
  IF kind = "NoiseSocket" THEN conn[e].send_cipher[1].nonce_counter ELSE conn[e].write_counter
RecvCounter(e) ==
  IF kind = "NoiseSocket" THEN conn[e].recv_cipher[1].nonce_counter ELSE conn[e].read_counter

\* Application payloads: a small one, and one whose ciphertext (payload and
\* 16-byte tag) is one byte more than 100000.
PayloadSizes == {10, 99985}

InitTransport ==
  /\ kind \in Kinds
  /\ conn = [e \in Ends |-> Established(kind, e)]
  /\ wire = [e \in Ends |-> <<>>]
  /\ sent = [e \in Ends |-> <<>>]
  /\ got = [e \in Ends |-> <<>>]
  /\ tampered = 0

Send(e) ==
  /\ Len(sent[e]) < MaxSends
  /\ \E size \in PayloadSizes :
       LET data == << <<"blob", size, <<e, Len(sent[e]) + 1>> >> >>
           r == IF kind = "NoiseSocket" THEN NoiseSocket_send(conn[e], data)
                ELSE WhatsAppConnection_send(conn[e], data)
       IN  /\ conn' = [conn EXCEPT ![e] = r.conn]
           /\ wire' = [wire EXCEPT ![Other(e)] = Append(@, r.frame)]
           /\ sent' = [sent EXCEPT ![e] = Append(@, [pt |-> data, n |-> r.n, frame |-> r.frame,
                                                    before |-> SendCounter(e)])]
  /\ UNCHANGED <<kind, got, tampered, codecVars, hsVars, appVars>>

Recv(e) ==
  /\ Len(wire[e]) > 0
  /\ LET r == IF kind = "NoiseSocket" THEN NoiseSocket_recv(conn[e], wire[e])
              ELSE WhatsAppConnection_recv(conn[e], wire[e], <<>>)
     IN  /\ conn' = [conn EXCEPT ![e] = r.conn]
         /\ wire' = [wire EXCEPT ![e] = r.rest]
         /\ got' = [got EXCEPT ![e] = Append(@, [res |-> r.res, out |-> r.out, n |-> r.n,
                                                  frames |-> r.frames])]
  /\ UNCHANGED <<kind, sent, tampered, codecVars, hsVars, appVars>>

NetDrop(e) ==
  /\ tampered < MaxTamper
  /\ Len(wire[e]) > 0
  /\ wire' = [wire EXCEPT ![e] = Tail(@)]
  /\ tampered' = tampered + 1
  /\ UNCHANGED <<kind, conn, sent, got, codecVars, hsVars, appVars>>

Injected == { << Len3(32), <<"junk", 32, <<"noise">>>> >>, << <<"junk", 2, <<"short">>>> >> }

NetInject(e) ==
  /\ tampered < MaxTamper
  /\ \E frame \in Injected : wire' = [wire EXCEPT ![e] = <<frame>> \o @]
  /\ tampered' = tampered + 1
  /\ UNCHANGED <<kind, conn, sent, got, codecVars, hsVars, appVars>>

\* The length field of the next frame made 5 larger than the bytes that follow.
NetRelabel(e) ==
  /\ tampered < MaxTamper
  /\ Len(wire[e]) > 0
  /\ ByteLen(wire[e][1]) >= 3
  /\ frame_len(wire[e][1]) = ByteLen(wire[e][1]) - 3
  /\ wire' = [wire EXCEPT ![e][1][1] = Len3(@[2] + 5)]
  /\ tampered' = tampered + 1
  /\ UNCHANGED <<kind, conn, sent, got, codecVars, hsVars, appVars>>

NextTransport ==
  \/ \E e \in Ends : Send(e)
  \/ \E e \in Ends : Recv(e)
  \/ \E e \in Ends : NetDrop(e)
  \/ \E e \in Ends : NetInject(e)
  \/ \E e \in Ends : NetRelabel(e)

\* ------------------------------------------------------------------------
\* Specifications
\* ------------------------------------------------------------------------

InitHsIdle == hs = <<>> /\ hsLog = <<>> /\ splitOut = <<>> /\ net = {} /\ wa = <<>>
InitTrIdle == kind = "" /\ conn = <<>> /\ wire = <<>> /\ sent = <<>> /\ got = <<>> /\ tampered = 0
InitAppIdle == cry = <<>> /\ client = <<>> /\ clock = 0 /\ tracker = <<>> /\ pairing = <<>>

CodecInit == InitCodec /\ InitHsIdle /\ InitTrIdle /\ InitAppIdle

SpecCodec ==
  /\ CodecInit
  /\ [][NextCodec]_vars

TokensInit == InitCodecIdle /\ InitHsIdle /\ InitTrIdle /\ InitAppIdle

SpecTokens ==
  /\ TokensInit
  /\ [][NextTokens]_vars

\* C1: decode(encode(v)) returns Ok with a node equal to v, for every
\* well-formed node v.
C1_RoundTrip ==
  (encoded # <<>> /\ fed = encoded /\ decoded # NoResult) => (decoded.err = "" /\ decoded.val = node)

\* C7: the decoder's index never passes the end of its buffer, every position a
\* read primitive touches lies inside the buffer, and a read that would pass the
\* end returns "unexpected end of data" without moving the index past the end.
C7_ReadsInBounds ==
  /\ dec.index <= Len(dec.data)
  /\ dec.last.at \subseteq 0..(Len(dec.data) - 1)
  /\ (dec.last.op \notin {"none", "new"} /\ dec.last.from + dec.last.n > Len(dec.data))
       => (dec.last.err = EndOfData /\ dec.index <= Len(dec.data))
  /\ (dec.last.op \in {"read_byte", "read_bytes"} /\ dec.last.err # "")
       => dec.index = dec.last.from
  /\ decoded # NoResult
       => decoded.index <= Len(fed)

C7_Witness ==
  /\ dec.last.op = "read_bytes"
  /\ dec.last.from > 0
  /\ dec.last.from + dec.last.n > Len(dec.data)
  /\ dec.last.err = EndOfData


C16_EmptyInput ==
  (decoded # NoResult /\ fed = <<>>) => decoded.err = EndOfData

\* decode was called on an empty buffer.
C16_Witness ==
  /\ dec.last.op = "new"
  /\ dec.data = <<>>
  /\ decoded # NoResult
  /\ fed = <<>>
  /\ decoded.index = 0

\* C17: a JID written as an attribute value reads back as a JID; one with agent
\* and device both zero is written in the user/server form and comes back with
\* the same user and server; one with a non-zero agent or device is written in
\* the agent/device form and comes back with the same user, agent, device and
\* server.
C17_JidRoundTrip ==
  jidTrip # NoJid =>
    LET j == jidTrip.given
        r == jidTrip.back
    IN  /\ r.err = ""
        /\ r.index = Len(jidTrip.bytes)
        /\ r.val.kind = "JID"
        /\ r.val.jid.user = j.user
        /\ r.val.jid.server = j.server
        /\ IF j.raw_agent = 0 /\ j.device = 0
           THEN jidTrip.bytes[1] = 249
           ELSE /\ jidTrip.bytes[1] = 250
                /\ r.val.jid.raw_agent = j.raw_agent
                /\ r.val.jid.device = j.device

\* C18: the encoder writes a JID as marker 0xF9, the user string and the server
\* string exactly when its agent and device are both zero, and as marker 0xFA,
\* the agent byte, the device byte and the user string exactly when one of them
\* is not zero.
C18_JidForm ==
  jidTrip # NoJid =>
    LET j == jidTrip.given
        b == jidTrip.bytes
    IN  /\ b[1] \in {249, 250}
        /\ b[1] = 249 <=> (j.raw_agent = 0 /\ j.device = 0)
        /\ b[1] = 249 => b = <<249>> \o write_string(j.user) \o write_string(j.server)
        /\ b[1] = 250 => /\ b[2] = j.raw_agent
                         /\ b[3] = j.device % 256
                         /\ SubSeq(b, 4, Len(b)) = write_string(j.user)

\* A JID with a raw agent and no device was written in the agent/device form.
C18_Witness ==
  /\ jidTrip # NoJid
  /\ jidTrip.given.raw_agent = 5
  /\ jidTrip.given.device = 0
  /\ jidTrip.bytes[1] = 250

\* C19: for every entry s of every token table (the reserved empty slot 0 of
\* the single-byte table aside), the reverse lookup of s finds
\* an index, the forward lookup of what it finds is s again, and no other index
\* of the same table holds s.
C19_TokenBijection ==
  (tok # NoTok /\ tok.op = "lookup" /\ tok.s # <<>>) =>
    /\ tok.rev # NoToken
    /\ tok.back = <<TRUE, tok.s>>
    /\ \A i \in 0..(TableLen(tok.table) - 1) :
         Forward(tok.table, i) = <<TRUE, tok.s>> => i = tok.index

\* C20: read_string on a single-byte marker beyond the end of the single-byte
\* table, or on a dictionary marker whose index byte is beyond the end of that
\* dictionary, returns an error, and so does decode of a node with that tag;
\* neither returns a string.
C20_UnknownTokenFails ==
  (tok # NoTok /\ tok.op = "read") =>
    LET single == tok.marker \notin (236..239) \cup (252..254)
        dict   == tok.marker \in 236..239
        known  == IF dict THEN tok.index < Len(DOUBLE_BYTE_TOKENS[tok.marker - 235])
                  ELSE tok.marker < Len(SINGLE_BYTE_TOKENS)
    IN  ((single \/ dict) /\ ~known) => (tok.str.err # "" /\ tok.tree.err # "")

\* The decoder read index 58 in dictionary 1, which has 58 entries, and
\* marker 240, past the single-byte table.
C20_Witness ==
  /\ tok # NoTok
  /\ tok.op = "read"
  /\ \/ tok.marker = 237 /\ tok.index = 58 /\ tok.str.err = "unknown double token"
     \/ tok.marker = 240 /\ tok.str.err = "unknown token" /\ tok.tree.err = "unknown token"

HandshakeInit == InitCodecIdle /\ InitHandshake /\ InitTrIdle /\ InitAppIdle

SpecHandshake ==
  /\ HandshakeInit
  /\ [][NextHandshake]_vars

\* The names of the calls on p that returned Ok, in call order.
RECURSIVE OkOps(_)
OkOps(log) ==
  IF Len(log) = 0 THEN <<>>
  ELSE IF log[Len(log)].res = "Ok"
       THEN Append(OkOps(SubSeq(log, 1, Len(log) - 1)), log[Len(log)].op)
       ELSE OkOps(SubSeq(log, 1, Len(log) - 1))

StepOrder == <<"write_message_1", "read_message_2", "write_message_3", "split">>

\* C2: once an initiator and a responder have both split, the initiator's send
\* key is the responder's receive key and the initiator's receive key is the
\* responder's send key.
C2_KeysLineUp ==
  (splitOut["I"] # None /\ splitOut["R"] # None)
    => /\ splitOut["I"][1].send.key = splitOut["R"][1].recv.key
       /\ splitOut["I"][1].recv.key = splitOut["R"][1].send.key

\* The AEAD operations of one handshake object, in order: every nonce is 12
\* bytes, 8 zero bytes then the counter as 4 big-endian bytes; the first
\* operation under a key has counter 0; the next under the same key has the
\* counter one higher; no key and nonce are used together twice.
UsesOK(us) ==
  \A i \in 1..Len(us) :
    /\ Len(us[i].nonce) = 12
    /\ SubSeq(us[i].nonce, 1, 8) = Zeros(8)
    /\ SubSeq(us[i].nonce, 9, 12) = BE(us[i].n, 4)
    /\ (i = 1 \/ us[i - 1].key # us[i].key) => us[i].n = 0
    /\ (i > 1 /\ us[i - 1].key = us[i].key) => us[i].n = us[i - 1].n + 1
    /\ \A j \in 1..Len(us) : (j # i /\ us[j].key = us[i].key) => us[j].nonce # us[i].nonce

\* C4: during the handshake every AEAD nonce is 12 bytes whose first 8 are zero
\* and whose last 4 are the big-endian per-key counter, the counter is 0 after
\* each key derivation and one higher with each encryption or decryption, and
\* no key is used twice with the same nonce.
C4_HandshakeNonces ==
  /\ \A p \in Peers : UsesOK(hs[p].uses)
  /\ UsesOK(wa.uses)

\* Some handshake used one key twice and then a freshly derived key.
UsesTwiceThenRekey(us) ==
  \E i \in 1..Len(us) : \E j \in 1..Len(us) :
    /\ i + 1 < j
    /\ us[i].key = us[i + 1].key /\ us[i + 1].n = 1
    /\ us[j].key # us[i].key /\ us[j].n = 0

C4_Witness ==
  /\ UsesTwiceThenRekey(hs["I"].uses)
  /\ hsLog["I"][Len(hsLog["I"])].op = "write_message_3"
  /\ hsLog["I"][Len(hsLog["I"])].res = "Ok"

\* C5: the steps of a handshake succeed only in the order write_message_1,
\* read_message_2, write_message_3, split, each at most once.
C5_StepsInOrder ==
  \A p \in Peers :
    LET ok == OkOps(hsLog[p])
    IN  Len(ok) <= Len(StepOrder) /\ ok = SubSeq(StepOrder, 1, Len(ok))

\* C6: after a handshake step has failed, no later step of that handshake
\* succeeds.
C6_FailedIsFinal ==
  \A p \in Peers :
    \A i \in 1..Len(hsLog[p]) : \A j \in 1..Len(hsLog[p]) :
      (i < j /\ hsLog[p][i].res # "Ok") => hsLog[p][j].res # "Ok"


\* C12: read_message_2 never panics, whatever the length of the message, and a
\* message too short for the 32-byte ephemeral key, the 48-byte encrypted static
\* key and a payload ciphertext (at least its 16-byte tag) gets MessageTooShort.
C12_ShortMessageTyped ==
  \A p \in Peers : \A i \in 1..Len(hsLog[p]) :
    hsLog[p][i].op = "read_message_2"
      => /\ hsLog[p][i].res \in {"Ok", "MessageTooShort", "DecryptionFailed", "InvalidKeySize"}
         /\ hsLog[p][i].len < 32 + 48 + 16 => hsLog[p][i].res = "MessageTooShort"

\* The value a transcript hash started from, and what was mixed into it since,
\* oldest first.
RECURSIVE HashBase(_)
HashBase(h) == IF h[1] = "sha256" /\ Len(h) = 3 THEN HashBase(h[2]) ELSE h
RECURSIVE HashMixed(_)
HashMixed(h) ==
  IF h[1] = "sha256" /\ Len(h) = 3 THEN Append(HashMixed(h[2]), h[3]) ELSE <<>>

\* C13: a handshake's transcript hash starts as SHA-256 of the protocol name,
\* with the chaining key equal to it, and the first thing mixed into the hash is
\* the connection header, before the ephemeral public key of message 1; for the
\* handshake objects of crypto/noise.rs and for the one socket/handshake.rs
\* constructs.
C13_InitialTranscript ==
  /\ \A p \in Peers :
       /\ HashBase(hs[p].hash) = <<"sha256", NOISE_PROTOCOL_NAME>>
       /\ Len(hsLog[p]) = 0 => hs[p].chaining_key = hs[p].hash
       /\ HashMixed(hs[p].hash) # <<>> => HashMixed(hs[p].hash)[1] = WA_HEADER
  /\ wa.fn = "do_handshake" =>
     LET st == NoiseHandshake_new(WA_HEADER)
     IN  /\ HashBase(st.hash) = <<"sha256", NOISE_PATTERN>>
         /\ st.salt = HashBase(st.hash)
         /\ HashMixed(st.hash) = <<WA_HEADER>>

TransportInit == InitCodecIdle /\ InitHsIdle /\ InitTransport /\ InitAppIdle

SpecTransport ==
  /\ TransportInit
  /\ [][NextTransport]_vars

\* The two endpoints over a network that delivers every frame as sent.
NextDelivery ==
  \/ \E e \in Ends : Send(e)
  \/ \E e \in Ends : Recv(e)

SpecDelivery ==
  /\ TransportInit
  /\ [][NextDelivery]_vars

\* The nonce an endpoint's receive path builds from counter n.
RecvNonce(n) == IF kind = "NoiseSocket" THEN Zeros(4) \o BE(n, 8) ELSE conn_iv(n)

\* The recv calls of e that returned a plaintext, in call order.
RECURSIVE Accepted(_)
Accepted(log) ==
  IF Len(log) = 0 THEN <<>>
  ELSE IF log[Len(log)].res = "Ok"
       THEN Append(Accepted(SubSeq(log, 1, Len(log) - 1)), log[Len(log)])
       ELSE Accepted(SubSeq(log, 1, Len(log) - 1))

\* How many frames e tried to decrypt, over all its recv calls.
RECURSIVE Attempts(_)
Attempts(log) ==
  IF Len(log) = 0 THEN 0
  ELSE Attempts(SubSeq(log, 1, Len(log) - 1))
       + Cardinality({i \in 1..Len(log[Len(log)].frames) :
                        log[Len(log)].frames[i].act \in {"accepted", "retried", "failed"}})

\* C3: a frame whose decryption fails under the current receive counter ends
\* the connection: the recv call that read it returns a failure, having read
\* nothing after it and retried nothing, and no later recv call returns a
\* plaintext.
C3_DecryptFailureFatal ==
  \A e \in Ends : \A k \in 1..Len(got[e]) : \A i \in 1..Len(got[e][k].frames) :
    got[e][k].frames[i].act \in {"failed", "retried"}
      => /\ got[e][k].frames[i].act = "failed"
         /\ got[e][k].res \notin {"Ok", "Timeout"}
         /\ i = Len(got[e][k].frames)
         /\ \A k2 \in (k + 1)..Len(got[e]) : got[e][k2].res # "Ok"

\* C8: each endpoint's send counter is the number of frames it has sent and its
\* receive counter the number of frames it has received and tried to decrypt,
\* both from 0.
C8_CountersPerFrame ==
  \A e \in Ends :
    /\ SendCounter(e) = Len(sent[e])
    /\ \A k \in 1..Len(sent[e]) : sent[e][k].n = k - 1
    /\ RecvCounter(e) = Attempts(got[e])

\* C9: as long as the network delivers exactly the frames sent, in order, the
\* k-th recv call of an endpoint returns the k-th plaintext its peer sent,
\* decrypted under the counter it was encrypted under.
C9_InOrderDelivery ==
  tampered = 0 =>
    \A e \in Ends : \A k \in 1..Len(got[e]) :
      /\ k <= Len(sent[Other(e)])
      /\ got[e][k].res = "Ok"
      /\ got[e][k].out = sent[Other(e)][k].pt
      /\ got[e][k].n = sent[Other(e)][k].n

\* C10: a recv call returns a plaintext only for a frame that holds at least as
\* many bytes after its 3-byte length field as the field says, and the plaintext
\* is the decryption of exactly that many bytes under the receive key, the
\* current counter and empty associated data.
C10_IndicatedSlice ==
  \A e \in Ends : \A k \in 1..Len(got[e]) :
    got[e][k].res = "Ok" =>
      LET f == got[e][k].frames[Len(got[e][k].frames)]
      IN  /\ frame_len(f.frame) <= ByteLen(f.frame) - 3
          /\ f.n = got[e][k].n
          /\ LET o == Open(RecvKey(e), RecvNonce(f.n), <<>>,
                           Slice(f.frame, 3, 3 + frame_len(f.frame)))
             IN  o.ok /\ o.out = got[e][k].out

\* C11: every frame an endpoint sends is the 3-byte big-endian length of the
\* ciphertext followed by the ciphertext; the ciphertext is the plaintext sealed
\* under the endpoint's send key, the nonce of the value its send counter had
\* before the call and empty associated data, and the length is the plaintext's
\* plus the 16-byte tag.
C11_OutboundFrame ==
  \A e \in Ends : \A k \in 1..Len(sent[e]) :
    LET s  == sent[e][k]
        ct == <<Seal(SendKey(e), RecvNonce(s.before), <<>>, s.pt)>>
    IN  /\ s.frame = <<Len3(ByteLen(ct))>> \o ct
        /\ frame_len(s.frame) = ByteLen(s.pt) + 16
        /\ frame_len(s.frame) = ByteLen(s.frame) - 3

\* An endpoint has sent two frames, the second a large one under counter 1.
C11_Witness ==
  \E e \in Ends :
    /\ Len(sent[e]) = 2
    /\ sent[e][2].before = 1
    /\ frame_len(sent[e][2].frame) = 100001


\* ------------------------------------------------------------------------
\* Uses of the crypto primitives (src/crypto/cipher.rs, keypair.rs, hkdf.rs)
\* ------------------------------------------------------------------------

MaxCounter == 2   \* nonce counters set on a Cipher before a call

NoCry == <<>>

CryKeys == {<<"key", 171>>, <<"key", 205>>}
Ads == {<<>>, << <<"blob", 10, "correct ad">> >>, << <<"blob", 8, "wrong ad">> >>}
Plaintexts == {<<>>, << <<"blob", 16, "Hello, WhatsApp!">> >>}

\* A ciphertext as it reaches decrypt: as sealed, with a bit of the ciphertext
\* or of the tag changed, with its last byte cut off, or with a byte added.
Altered(ct) ==
  {ct,
   Tamper(ct, 1),
   Slice(ct, 0, ByteLen(ct) - 1),
   ct \o << <<"junk", 1, <<"added">>>> >>}

\* Cipher::new(key), set_nonce(n), encrypt(pt, ad)
CipherEncrypt ==
  /\ cry = NoCry
  /\ \E key \in CryKeys : \E n \in 0..MaxCounter : \E ad \in Ads : \E pt \in Plaintexts :
       LET e == Cipher_encrypt(Cipher_set_nonce(Cipher_new(key), n), pt, ad)
       IN  cry' = [op |-> "encrypt", n |-> n, ad |-> ad, pt |-> pt, ct |-> e.out, cipher |-> e.cipher]
  /\ UNCHANGED <<client, clock, tracker, pairing, codecVars, hsVars, trVars>>

\* set_nonce(n) on the same Cipher, then decrypt(ct, ad) of what reached it.
CipherDecrypt ==
  /\ cry # NoCry
  /\ cry.op = "encrypt"
  /\ \E n \in 0..MaxCounter : \E ad \in Ads : \E ct \in Altered(cry.ct) :
       LET d == Cipher_decrypt(Cipher_set_nonce(cry.cipher, n), ct, ad)
       IN  cry' = [op |-> "decrypt",
                   sealed |-> [n |-> cry.n, ad |-> cry.ad, ct |-> cry.ct],
                   given  |-> [n |-> n, ad |-> ad, ct |-> ct],
                   pt |-> cry.pt, ok |-> d.ok, out |-> d.out, cipher |-> d.cipher]
  /\ UNCHANGED <<client, clock, tracker, pairing, codecVars, hsVars, trVars>>

PrivateKeys == {"a", "b", "c"}

\* Two KeyPair::generate() results and the two dh calls between them.
DhAgree ==
  /\ cry = NoCry
  /\ \E ra \in PrivateKeys : \E rb \in PrivateKeys :
       LET A == KeyPair_generate(ra)
           B == KeyPair_generate(rb)
       IN  cry' = [op |-> "dh", a |-> A, b |-> B,
                   ab |-> KeyPair_dh(A, B.public), ba |-> KeyPair_dh(B, A.public)]
  /\ UNCHANGED <<client, clock, tracker, pairing, codecVars, hsVars, trVars>>

\* Hkdf::new: HKDF-Extract, with 32 zero bytes for a missing salt.
Hkdf_new(salt, ikm) ==
  [prk |-> <<"hmac", IF salt = None THEN Zeros(32) ELSE salt[1], ikm>>]

\* Hkdf::expand up to its while loop.  output_len is output.len(), counters
\* lists the counter bytes fed to HMAC so far (block i is HMAC(prk, block i-1
\* || info || counters[i])), counter is the u8 counter.
expand_enter(hkdf, info, length, overflow_checks) ==
  [prk |-> hkdf.prk, info |-> info, length |-> length, overflow_checks |-> overflow_checks,
   output_len |-> 0, counters |-> <<>>, counter |-> 1, res |-> "running"]

\* The loop test of Hkdf::expand and, once it fails, truncate and return.
expand_test(e) ==
  IF e.output_len < e.length THEN e
  ELSE [e EXCEPT !.res = "Ok", !.output_len = IF @ > e.length THEN e.length ELSE @]

\* One pass through the body of the while loop, then the loop test.  When
\* `counter += 1` overflows the u8, a build with overflow checks panics and
\* one without wraps to 0.
expand_body(e) ==
  LET remaining == e.length - e.output_len
      to_copy   == IF remaining < 32 THEN remaining ELSE 32
      copied    == [e EXCEPT !.counters = Append(@, e.counter), !.output_len = @ + to_copy]
  IN  IF e.counter + 1 > 255 /\ e.overflow_checks
      THEN [copied EXCEPT !.res = "panic"]
      ELSE expand_test([copied EXCEPT !.counter = (@ + 1) % 256])

Salts == {None, Some(<< <<"blob", 13, "salt">> >>)}
Lengths == {0, 1, 32, 33, 42, 64, 8128, 8129, 8160}

\* The call Hkdf::derive(salt, ikm, info, length), in a build with or without
\* overflow checks, up to the first test of the loop in expand.
HkdfDerive ==
  /\ cry = NoCry
  /\ \E salt \in Salts : \E length \in Lengths : \E overflow_checks \in BOOLEAN :
       cry' = [op |-> "hkdf"] @@
              expand_test(expand_enter(Hkdf_new(salt, << <<"blob", 22, "ikm">> >>),
                                       << <<"blob", 10, "info">> >>, length, overflow_checks))
  /\ UNCHANGED <<client, clock, tracker, pairing, codecVars, hsVars, trVars>>

\* The next pass of the loop in expand.
HkdfBlock ==
  /\ cry # NoCry
  /\ cry.op = "hkdf"
  /\ cry.res = "running"
  /\ cry' = expand_body(cry)
  /\ UNCHANGED <<client, clock, tracker, pairing, codecVars, hsVars, trVars>>

NextCrypto ==
  \/ CipherEncrypt
  \/ CipherDecrypt
  \/ DhAgree
  \/ HkdfDerive
  \/ HkdfBlock

InitCrypto == cry = NoCry /\ client = <<>> /\ clock = 0 /\ tracker = <<>> /\ pairing = <<>>

CryptoInit == InitCodecIdle /\ InitHsIdle /\ InitTrIdle /\ InitCrypto

SpecCrypto ==
  /\ CryptoInit
  /\ [][NextCrypto]_vars

\* ------------------------------------------------------------------------
\* SessionState (src/state.rs) and WhatsmeowClient (src/client.rs)
\*
\* Times are minutes.  A call reads Utc::now() up to three times; the first
\* read returns `now` and the later ones `later`, with now <= later.  An event
\* is recorded by its kind.
\* ------------------------------------------------------------------------

\* SessionState::default(), the fields the modelled calls use.
SessionState_default ==
  [registered_jid  |-> None,
   encryption_keys |-> <<>>,
   contacts        |-> <<>>,
   outgoing_messages |-> <<>>,
   incoming_messages |-> <<>>,
   connected       |-> FALSE,
   last_connected  |-> None,
   pairing_code    |-> None,
   qr_login        |-> None,
   events          |-> <<>>]

\* SessionState::is_registered
is_registered(s) == s.registered_jid # None

\* SessionState::push_event
push_event(s, event) == [s EXCEPT !.events = Append(@, event)]

\* SessionState::register
SessionState_register(s, jid) ==
  push_event([s EXCEPT !.registered_jid = Some(jid),
                       !.encryption_keys = IF @ = <<>> THEN << <<"derived-key-for-", jid>> >> ELSE @],
             "Registered")

\* SessionState::set_pairing_code
set_pairing_code(s, code, expires_at, later) ==
  push_event([s EXCEPT !.pairing_code = Some([code |-> code, issued_at |-> later, expires_at |-> expires_at])],
             "PairingCodeIssued")

\* SessionState::set_qr_login
set_qr_login(s, token, expires_at, later) ==
  push_event([s EXCEPT !.qr_login = Some([token |-> token, issued_at |-> later,
                                          expires_at |-> expires_at, verified |-> FALSE])],
             "QrCodeGenerated")

\* SessionState::verify_qr_login: the new state and the Option returned.
SessionState_verify_qr_login(s) ==
  IF s.qr_login = None THEN [state |-> s, ret |-> None]
  ELSE Bind([s.qr_login[1] EXCEPT !.verified = TRUE], LAMBDA login :
         [state |-> push_event([s EXCEPT !.qr_login = Some(login)], "QrCodeVerified"),
          ret   |-> Some(login)])

\* What a client call returns and the state it leaves.
ClientResult(s, res, val) == [state |-> s, res |-> res, val |-> val]

\* request_pairing_code that answers PairingCodeExists whenever a code is
\* stored.
request_pairing_code_no_expiry(s, code, now, later) ==
  IF ~is_registered(s) THEN ClientResult(s, "NotRegistered", None)
  ELSE IF s.pairing_code # None THEN ClientResult(s, "PairingCodeExists", None)
  ELSE ClientResult(set_pairing_code(s, code, later + 5, later), "Ok", Some(code))

\* WhatsmeowClient::request_pairing_code; code is the 8 characters drawn.
request_pairing_code(s, code, now, later) ==
  IF ~is_registered(s) THEN ClientResult(s, "NotRegistered", None)
  ELSE IF s.pairing_code # None /\ s.pairing_code[1].expires_at > now
       THEN ClientResult(s, "PairingCodeExists", None)
  ELSE ClientResult(set_pairing_code([s EXCEPT !.pairing_code = None], code, later + 5, later),
                    "Ok", Some(code))

\* WhatsmeowClient::generate_qr_login; token is the 24 characters drawn.
generate_qr_login(s, token, now, later) ==
  IF ~is_registered(s) THEN ClientResult(s, "NotRegistered", None)
  ELSE Bind(set_qr_login(s, token, now + 10, later), LAMBDA s2 :
         ClientResult(s2, "Ok", s2.qr_login))

\* verify_qr_login that compares the token before it looks at the expiry.
verify_qr_login_token_first(s, token, now) ==
  IF s.qr_login = None THEN ClientResult(s, "QrLoginMissing", None)
  ELSE IF s.qr_login[1].token # token THEN ClientResult(s, "QrLoginMismatch", None)
  ELSE IF s.qr_login[1].expires_at < now
       THEN ClientResult([s EXCEPT !.qr_login = None], "QrLoginExpired", None)
  ELSE Bind(SessionState_verify_qr_login(s), LAMBDA v : ClientResult(v.state, "Ok", v.ret))

\* WhatsmeowClient::verify_qr_login
verify_qr_login(s, token, now) ==
  IF s.qr_login = None THEN ClientResult(s, "QrLoginMissing", None)
  ELSE IF s.qr_login[1].expires_at < now
       THEN ClientResult([s EXCEPT !.qr_login = None], "QrLoginExpired", None)
  ELSE IF s.qr_login[1].token # token THEN ClientResult(s, "QrLoginMismatch", None)
  ELSE Bind(SessionState_verify_qr_login(s), LAMBDA v : ClientResult(v.state, "Ok", v.ret))

MaxEvents == 3    \* events recorded in the session
MaxClock  == 12   \* minutes the clock runs

PairingCodes == {"Ab3dEf9h", "Zz0yXw1v"}
QrTokens     == {"tokenA"}
Presented    == QrTokens \cup {"expired"}

\* The client after a call: its state, the call, what it returned, the state
\* before the call and the time the call first read.
AfterCall(fn, arg, r, before, now) ==
  [state |-> r.state, fn |-> fn, arg |-> arg, res |-> r.res, val |-> r.val,
   before |-> before, now |-> now]

\* WhatsmeowClient::new(WhatsmeowConfig::default(), SessionState::default())
InitClient ==
  /\ client = AfterCall("new", None, ClientResult(SessionState_default, "Ok", None), SessionState_default, 0)
  /\ clock = 0

\* Five minutes pass between two calls.
Tick ==
  /\ clock + 5 <= MaxClock
  /\ clock' = clock + 5
  /\ UNCHANGED <<client, cry, tracker, pairing, codecVars, hsVars, trVars>>

\* A call that may record an event, while the call takes `late` minutes.
ClientCall(fn, arg, late, r) ==
  /\ Len(r.state.events) <= MaxEvents
  /\ clock + late <= MaxClock
  /\ client' = AfterCall(fn, arg, r, client.state, clock)
  /\ clock' = clock + late
  /\ UNCHANGED <<cry, tracker, pairing, codecVars, hsVars, trVars>>

\* client.register_device(jid)
RegisterDevice ==
  ClientCall("register_device", Some("123@s.whatsapp.net"), 0,
             ClientResult(SessionState_register(client.state, "123@s.whatsapp.net"), "Ok", None))

\* client.request_pairing_code()
RequestPairingCode ==
  \E code \in PairingCodes : \E late \in {0, 1} :
    ClientCall("request_pairing_code", None, late,
               request_pairing_code(client.state, code, clock, clock + late))

\* client.generate_qr_login()
GenerateQrLogin ==
  \E token \in QrTokens : \E late \in {0, 1} :
    ClientCall("generate_qr_login", None, late,
               generate_qr_login(client.state, token, clock, clock + late))

\* client.verify_qr_login(token)
VerifyQrLogin ==
  \E token \in Presented :
    ClientCall("verify_qr_login", Some(token), 0, verify_qr_login(client.state, token, clock))

NextClient ==
  \/ Tick
  \/ RegisterDevice
  \/ RequestPairingCode
  \/ GenerateQrLogin
  \/ VerifyQrLogin

ClientInit ==
  InitCodecIdle /\ InitHsIdle /\ InitTrIdle /\ InitClient /\ cry = <<>> /\ tracker = <<>> /\ pairing = <<>>

SpecClient ==
  /\ ClientInit
  /\ [][NextClient]_vars

\* ------------------------------------------------------------------------
\* RequestTracker (src/protocol/request.rs)
\*
\* A oneshot channel is known by the number of the register call that made
\* it.  Its receiver is "waiting" until the caller drops it ("dropped"), the
\* sender is dropped unsent ("closed") or a response is sent (<<response>>).
\* ------------------------------------------------------------------------

\* RequestTracker::new
RequestTracker_new == [pending |-> [id \in {} |-> 0], counter |-> 0]

\* HashMap::insert and HashMap::remove on the pending map.
MapInsert(m, k, v) == [x \in DOMAIN m \cup {k} |-> IF x = k THEN v ELSE m[x]]
MapRemove(m, k) == [x \in DOMAIN m \ {k} |-> m[x]]

\* RequestTracker::register: the sender of channel ch is stored under id, and a
\* sender it replaces is dropped.
RequestTracker_register(t, id, ch) ==
  [t |-> [t EXCEPT !.pending = MapInsert(@, id, ch)],
   dropped |-> IF id \in DOMAIN t.pending THEN {t.pending[id]} ELSE {}]

\* complete that looks the sender up and leaves it in the map.
RequestTracker_complete_keep(t, id) ==
  IF id \in DOMAIN t.pending
  THEN [t |-> t, sent_on |-> {t.pending[id]}]
  ELSE [t |-> t, sent_on |-> {}]

\* RequestTracker::complete: the sender removed, if any, is the one the
\* response is sent on.
RequestTracker_complete(t, id) ==
  IF id \in DOMAIN t.pending
  THEN [t |-> [t EXCEPT !.pending = MapRemove(@, id)], sent_on |-> {t.pending[id]}]
  ELSE [t |-> t, sent_on |-> {}]

\* RequestTracker::cancel
RequestTracker_cancel(t, id) ==
  [t |-> [t EXCEPT !.pending = MapRemove(@, id)],
   dropped |-> IF id \in DOMAIN t.pending THEN {t.pending[id]} ELSE {}]

\* RequestTracker::pending_count
pending_count(t) == Cardinality(DOMAIN t.pending)

MaxRequests == 3   \* register calls on one tracker

RequestIds == {"1A2B.1", "FFFF.2"}
Responses  == {"result", "error"}

\* The tracker, the receiver end of every channel made, the ids registered and
\* not completed or cancelled since, how often complete returned true for each
\* channel, and the last call.
InitTracker ==
  tracker = [t |-> RequestTracker_new, rx |-> <<>>, live |-> {}, trues |-> <<>>,
             last |-> [fn |-> "new", id |-> "", ret |-> FALSE, was_pending |-> FALSE]]

\* The receiver ends after the senders in `chs` were dropped unsent.
Closed(rx, chs) == [ch \in DOMAIN rx |-> IF ch \in chs /\ rx[ch] = "waiting" THEN "closed" ELSE rx[ch]]

\* let rx = tracker.register(id)
TrackerRegister ==
  /\ Len(tracker.rx) < MaxRequests
  /\ \E id \in RequestIds :
       LET ch == Len(tracker.rx) + 1
           r  == RequestTracker_register(tracker.t, id, ch)
       IN  tracker' = [t |-> r.t,
                       rx |-> Append(Closed(tracker.rx, r.dropped), "waiting"),
                       live |-> tracker.live \cup {id},
                       trues |-> Append(tracker.trues, 0),
                       last |-> [fn |-> "register", id |-> id, ret |-> FALSE,
                                 was_pending |-> id \in DOMAIN tracker.t.pending]]
  /\ UNCHANGED <<cry, client, clock, pairing, codecVars, hsVars, trVars>>

\* tracker.complete(id, response): tx.send(response).is_ok() is true exactly
\* when the receiver has not been dropped.
TrackerComplete ==
  /\ \E id \in RequestIds : \E response \in Responses :
       LET r   == RequestTracker_complete(tracker.t, id)
           ok  == \E ch \in r.sent_on : tracker.rx[ch] = "waiting"
       IN  tracker' = [t |-> r.t,
                       rx |-> [ch \in DOMAIN tracker.rx |->
                                 IF ch \in r.sent_on /\ tracker.rx[ch] = "waiting"
                                 THEN <<response>> ELSE tracker.rx[ch]],
                       live |-> tracker.live \ {id},
                       trues |-> [ch \in DOMAIN tracker.trues |->
                                    IF ch \in r.sent_on /\ ok THEN tracker.trues[ch] + 1
                                    ELSE tracker.trues[ch]],
                       last |-> [fn |-> "complete", id |-> id, ret |-> ok,
                                 was_pending |-> id \in DOMAIN tracker.t.pending]]
  /\ UNCHANGED <<cry, client, clock, pairing, codecVars, hsVars, trVars>>

\* tracker.cancel(id)
TrackerCancel ==
  /\ \E id \in RequestIds :
       LET r == RequestTracker_cancel(tracker.t, id)
       IN  tracker' = [tracker EXCEPT !.t = r.t,
                                      !.rx = Closed(@, r.dropped),
                                      !.live = @ \ {id},
                                      !.last = [fn |-> "cancel", id |-> id, ret |-> FALSE,
                                                was_pending |-> id \in DOMAIN tracker.t.pending]]
  /\ UNCHANGED <<cry, client, clock, pairing, codecVars, hsVars, trVars>>

\* The caller drops a receiver it still holds.
DropReceiver ==
  /\ \E ch \in DOMAIN tracker.rx :
       /\ tracker.rx[ch] = "waiting"
       /\ tracker' = [tracker EXCEPT !.rx[ch] = "dropped",
                                     !.last = [fn |-> "drop", id |-> "", ret |-> FALSE, was_pending |-> FALSE]]
  /\ UNCHANGED <<cry, client, clock, pairing, codecVars, hsVars, trVars>>

NextTracker ==
  \/ TrackerRegister
  \/ TrackerComplete
  \/ TrackerCancel
  \/ DropReceiver

TrackerInit ==
  InitCodecIdle /\ InitHsIdle /\ InitTrIdle /\ InitTracker /\ cry = <<>> /\ client = <<>> /\ clock = 0 /\ pairing = <<>>

SpecTracker ==
  /\ TrackerInit
  /\ [][NextTracker]_vars

\* ------------------------------------------------------------------------
\* QRPairing (src/protocol/qr.rs)
\*
\* A code is the tuple of the four comma-separated parts of its string; a key
\* part is the base64 text of a key, or empty when the device has none.
\* ------------------------------------------------------------------------

\* Device::new() and the same device after initialize(), as far as
\* generate_codes reads it.
Device_new == [noise_key |-> None, identity_key |-> None, adv_secret_key |-> None]
Device_initialized ==
  [noise_key      |-> Some(KeyPair_generate("noise")),
   identity_key   |-> Some(KeyPair_generate("identity")),
   adv_secret_key |-> Some(<<"blob", 32, "adv">>)]

\* base64 of an optional key, or the empty string: .map(..).unwrap_or_default()
KeyText(k) == IF k = None THEN "" ELSE <<"base64", k[1]>>

\* QRPairing::generate_codes; refs are the random u64 of each of the 6 codes.
generate_codes(device, refs) ==
  [i \in 1..6 |->
     <<refs[i],
       KeyText(IF device.noise_key = None THEN None ELSE Some(device.noise_key[1].public)),
       KeyText(IF device.identity_key = None THEN None ELSE Some(device.identity_key[1].public)),
       KeyText(device.adv_secret_key)>>]

\* QRPairing::new
QRPairing_new(device, refs) ==
  [device |-> device, codes |-> generate_codes(device, refs), current_index |-> 0, complete |-> FALSE]

\* QRPairing::current_code: codes.get(current_index)
current_code(p) ==
  IF p.current_index < Len(p.codes) THEN Some(p.codes[p.current_index + 1]) ELSE None

\* next_code that advances whatever the index is.
next_code_unbounded(p) ==
  Bind([p EXCEPT !.current_index = @ + 1], LAMBDA q : [p |-> q, ret |-> current_code(q)])

\* QRPairing::next_code
next_code(p) ==
  IF p.current_index + 1 < Len(p.codes)
  THEN Bind([p EXCEPT !.current_index = @ + 1], LAMBDA q : [p |-> q, ret |-> current_code(q)])
  ELSE [p |-> p, ret |-> None]

\* QRPairing::current_timeout, in seconds
current_timeout(p) == IF p.current_index = 0 THEN 60 ELSE 20

\* QRPairing::mark_complete
mark_complete(p) == [p EXCEPT !.complete = TRUE]

MaxNextCalls == 7   \* next_code calls on one pairing

Refs == {"1F", "A0"}

\* The pairing, the last call on it with what it returned and the index before
\* it, and how many next_code calls were made and how many returned a code.
PairingAfter(p, fn, ret, before, calls, moves) ==
  [p |-> p, fn |-> fn, ret |-> ret, before |-> before, calls |-> calls, moves |-> moves]

\* QRPairing::new(device)
InitPairing ==
  \E device \in {Device_new, Device_initialized} : \E refs \in [1..6 -> Refs] :
    pairing = PairingAfter(QRPairing_new(device, refs), "new", None, 0, 0, 0)

\* pairing.next_code()
QrNextCode ==
  /\ pairing.calls < MaxNextCalls
  /\ LET r == next_code(pairing.p)
     IN  pairing' = PairingAfter(r.p, "next_code", r.ret, pairing.p.current_index,
                                 pairing.calls + 1,
                                 pairing.moves + (IF r.ret = None THEN 0 ELSE 1))
  /\ UNCHANGED <<cry, client, clock, tracker, codecVars, hsVars, trVars>>

\* pairing.current_code()
QrCurrentCode ==
  /\ pairing' = [pairing EXCEPT !.fn = "current_code", !.ret = current_code(pairing.p),
                                !.before = pairing.p.current_index]
  /\ UNCHANGED <<cry, client, clock, tracker, codecVars, hsVars, trVars>>

\* pairing.current_timeout()
QrCurrentTimeout ==
  /\ pairing' = [pairing EXCEPT !.fn = "current_timeout", !.ret = Some(current_timeout(pairing.p)),
                                !.before = pairing.p.current_index]
  /\ UNCHANGED <<cry, client, clock, tracker, codecVars, hsVars, trVars>>

\* pairing.mark_complete()
QrMarkComplete ==
  /\ pairing' = [pairing EXCEPT !.p = mark_complete(@), !.fn = "mark_complete", !.ret = None,
                                !.before = pairing.p.current_index]
  /\ UNCHANGED <<cry, client, clock, tracker, codecVars, hsVars, trVars>>

NextPairing ==
  \/ QrNextCode
  \/ QrCurrentCode
  \/ QrCurrentTimeout
  \/ QrMarkComplete

PairingInit ==
  InitCodecIdle /\ InitHsIdle /\ InitTrIdle /\ InitPairing /\ cry = <<>> /\ client = <<>> /\ clock = 0 /\ tracker = <<>>

SpecPairing ==
  /\ PairingInit
  /\ [][NextPairing]_vars

\* ------------------------------------------------------------------------
\* String encoding
\* ------------------------------------------------------------------------

\* C21: write_string on a non-empty string of the single-byte table writes its
\* index byte alone; on a string of one of the four dictionaries (and not of
\* the single-byte table) it writes the dictionary marker 0xEC + dict and the
\* index; on a string of no table it writes a length marker and the bytes.
C21_TokenFirst ==
  (tok # NoTok /\ tok.op = "write" /\ tok.s # <<>>) =>
    LET inPrimary   == {i \in 0..(TableLen(0) - 1) : get_token(i) = <<TRUE, tok.s>>}
        inSecondary == {p \in (0..3) \X (0..255) : get_double_token(p[1], p[2]) = <<TRUE, tok.s>>}
    IN  IF inPrimary # {} THEN \E i \in inPrimary : tok.bytes = <<i>>
        ELSE IF inSecondary # {} THEN \E p \in inSecondary : tok.bytes = <<236 + p[1], p[2]>>
        ELSE tok.bytes = <<252, Len(tok.s)>> \o tok.s

\* C22: write_string on the empty string writes one byte, and reading a string
\* from that byte returns the empty string with the index just after it,
\* whatever follows in the buffer.
C22_EmptyString ==
  (tok # NoTok /\ tok.op = "write" /\ tok.s = <<>>) =>
    /\ Len(tok.bytes) = 1
    /\ tok.back.err = ""
    /\ tok.back.val = <<>>
    /\ tok.back.index = 1

\* C23: for a node with tag "message" and the single attribute "id", encode
\* writes a header byte, then the single-byte token 19 of "message", then "id"
\* as a short string (0xFC, 2, 'i', 'd'), then the value; and decode of the
\* bytes written returns a node with tag "message" that has the attribute "id".
C23_DictionaryScenario ==
  (node.tag = Utf8("message") /\ DOMAIN node.attrs = {Utf8("id")} /\ encoded # <<>>) =>
    LET rest == <<get_token_index(Utf8("message"))>> \o <<252, 2>> \o Utf8("id")
                \o write_attr_value(node.attrs[Utf8("id")])
    IN  /\ Len(encoded) >= 1 + Len(rest)
        /\ SubSeq(encoded, 2, 1 + Len(rest)) = rest
        /\ (fed = encoded /\ decoded # NoResult) =>
             /\ decoded.err = ""
             /\ decoded.val.tag = Utf8("message")
             /\ Utf8("id") \in DOMAIN decoded.val.attrs

\* ------------------------------------------------------------------------
\* Crypto primitives
\* ------------------------------------------------------------------------

\* C24: when the ciphertext (or its tag), the nonce counter or the associated
\* data given to Cipher::decrypt differs from what Cipher::encrypt sealed
\* under the same key, decrypt returns DecryptionFailed and no plaintext.
C24_TamperDetected ==
  (cry # NoCry /\ cry.op = "decrypt" /\ cry.given # cry.sealed) =>
    (~cry.ok /\ cry.out = <<>>)

\* decrypt ran on the sealed ciphertext with another associated data, on the
\* sealed ciphertext with another counter, and on an altered ciphertext with
\* the counter and associated data of encrypt.
C24_Witness ==
  /\ cry # NoCry
  /\ cry.op = "decrypt"
  /\ ~cry.ok
  /\ cry.given.ct = cry.sealed.ct
  /\ cry.given.n = cry.sealed.n
  /\ cry.given.ad # cry.sealed.ad

\* C25: for two generated key pairs A and B, A.dh(B.public) = B.dh(A.public).
C25_DhCommutes ==
  (cry # NoCry /\ cry.op = "dh") => cry.ab = cry.ba

\* Two different key pairs agreed.
C25_Witness ==
  /\ cry # NoCry
  /\ cry.op = "dh"
  /\ cry.a.private # cry.b.private
  /\ cry.a.public # cry.b.public
  /\ cry.ab = cry.ba

\* C26: a call of Hkdf::derive with a length of at most 255 * 32 does not
\* panic; while it runs, block i is computed with counter byte i; and when it
\* returns, its output has exactly `length` bytes.
C26_ExpandLength ==
  (cry # NoCry /\ cry.op = "hkdf" /\ cry.length <= 255 * 32) =>
    /\ cry.res # "panic"
    /\ cry.counters = [i \in 1..Len(cry.counters) |-> i]
    /\ cry.res = "Ok" =>
         /\ cry.output_len = cry.length
         /\ Len(cry.counters) = (cry.length + 31) \div 32

\* ------------------------------------------------------------------------
\* Client session
\* ------------------------------------------------------------------------

\* C27: on a registered session, request_pairing_code returns
\* PairingCodeExists and leaves the session as it was when a pairing code is
\* stored whose expiry lies after the time of the call; otherwise (no code, or
\* a code whose expiry is not after the time of the call) it returns Ok with
\* the code drawn and stores that code, expiring five minutes after it was
\* issued.
C27_PairingCodeExpiry ==
  (client.fn = "request_pairing_code" /\ is_registered(client.before)) =>
    IF client.before.pairing_code # None /\ client.before.pairing_code[1].expires_at > client.now
    THEN /\ client.res = "PairingCodeExists"
         /\ client.state = client.before
    ELSE /\ client.res = "Ok"
         /\ client.state.pairing_code # None
         /\ client.val = Some(client.state.pairing_code[1].code)
         /\ client.state.pairing_code[1].expires_at = client.state.pairing_code[1].issued_at + 5
         /\ client.state.pairing_code[1].issued_at >= client.now

\* A stored pairing code had expired and the call replaced it.
C27_Witness ==
  /\ client.fn = "request_pairing_code"
  /\ client.before.pairing_code # None
  /\ client.before.pairing_code[1].expires_at <= client.now
  /\ client.res = "Ok"
  /\ client.state.pairing_code # client.before.pairing_code

\* C28: verify_qr_login leaves a stored token marked verified only when a
\* token was stored, its expiry is not before the time of the call and it
\* equals the token presented; and when the stored token's expiry is before
\* the time of the call, the call returns QrLoginExpired and the session holds
\* no token afterwards, whichever token is presented.
C28_QrVerify ==
  client.fn = "verify_qr_login" =>
    /\ (client.res = "Ok" \/ (client.state.qr_login # None /\ client.state.qr_login[1].verified
                                /\ client.state.qr_login # client.before.qr_login)) =>
         /\ client.before.qr_login # None
         /\ client.before.qr_login[1].expires_at >= client.now
         /\ client.before.qr_login[1].token = client.arg[1]
         /\ client.state.qr_login = Some([client.before.qr_login[1] EXCEPT !.verified = TRUE])
    /\ (client.before.qr_login # None /\ client.before.qr_login[1].expires_at < client.now) =>
         /\ client.res = "QrLoginExpired"
         /\ client.state.qr_login = None

\* An expired token was presented with another token and was removed.
C28_Witness ==
  /\ client.fn = "verify_qr_login"
  /\ client.before.qr_login # None
  /\ client.before.qr_login[1].expires_at < client.now
  /\ client.before.qr_login[1].token # client.arg[1]
  /\ client.res = "QrLoginExpired"
  /\ client.state.qr_login = None

\* ------------------------------------------------------------------------
\* Request tracker
\* ------------------------------------------------------------------------

\* C29: the pending ids are exactly the ids registered and not completed or
\* cancelled since, and pending_count is their number; after complete(id) the
\* id is not pending; complete returns false for an id that was not pending;
\* and for each register call complete returned true at most once.
C29_PendingRequests ==
  /\ DOMAIN tracker.t.pending = tracker.live
  /\ pending_count(tracker.t) = Cardinality(tracker.live)
  /\ tracker.last.fn = "complete" =>
       /\ tracker.last.id \notin DOMAIN tracker.t.pending
       /\ ~tracker.last.was_pending => ~tracker.last.ret
  /\ \A ch \in DOMAIN tracker.trues : tracker.trues[ch] <= 1

\* A registered request was completed with true, and a second complete for the
\* same id returned false while another request stayed pending.
C29_Witness ==
  /\ tracker.last.fn = "complete"
  /\ ~tracker.last.ret
  /\ ~tracker.last.was_pending
  /\ \E ch \in DOMAIN tracker.trues : tracker.trues[ch] = 1
  /\ pending_count(tracker.t) = 1

\* ------------------------------------------------------------------------
\* QR pairing
\* ------------------------------------------------------------------------

MaxAttrs == 200

\* Lengths and child counts around the borders of the three size classes.
FieldSizes ==
  {0, 1, 2, 127, 128, 200, 251, 252, 253, 254, 255, 256, 257, 511, 4660,
   65535, 65536, 65537, 1193046, 16777215}

\* The three places where the encoder writes write_int(len) after a marker.
FieldKinds == {"attr", "content", "children"}

\* Bytes that follow a length field in the buffer.
FieldFollowers == {<<>>, <<7, 7, 7>>}

\* The marker and the length field the encoder writes: write_attr_value for
\* Bytes, and the two content arms of write_node.
write_field(k, n) ==
  IF k = "children" THEN <<248>> \o write_int(n) ELSE <<255>> \o write_int(n)

\* The decoder on the same field, the marker already read: the Bytes arm of
\* read_attr_value, the bytes arm of read_node's content, and read_list_size.
read_field(k, data, index, marker) ==
  CASE k = "attr"     -> read_attr_bytes_len(data, index)
    [] k = "content"  -> read_len_by_marker(data, index, marker, FALSE, "invalid bytes length")
    [] k = "children" -> read_list_size(data, index, marker)

\* write_node's header byte for a node of num_attrs attributes.
WriteHeader ==
  /\ tok = NoTok
  /\ \E num_attrs \in 0..MaxAttrs : \E has_content \in BOOLEAN :
       tok' = [op |-> "header", num_attrs |-> num_attrs, has_content |-> has_content,
               header |-> node_header(num_attrs, has_content)]
  /\ UNCHANGED <<node, seed, encoded, decoded, dec, fed, jidTrip, hsVars, trVars, appVars>>

\* A length or count n written by the encoder, then read by the decoder at
\* the byte after the marker.
WriteField ==
  /\ tok = NoTok
  /\ \E k \in FieldKinds : \E n \in FieldSizes : \E rest \in FieldFollowers :
       tok' = [op |-> "field", k |-> k, n |-> n, bytes |-> write_field(k, n), rest |-> rest,
               back |-> read_field(k, write_field(k, n) \o rest, 1, write_field(k, n)[1])]
  /\ UNCHANGED <<node, seed, encoded, decoded, dec, fed, jidTrip, hsVars, trVars, appVars>>

NextFields ==
  \/ WriteHeader
  \/ WriteField

FieldsInit == InitCodecIdle /\ InitHsIdle /\ InitTrIdle /\ InitAppIdle

SpecFields ==
  /\ FieldsInit
  /\ [][NextFields]_vars

\* ------------------------------------------------------------------------
\* WhatsmeowClient: connection and messages (src/client.rs, src/state.rs)
\*
\* A Uuid::new_v4() is the number of ids drawn before it, plus one.
\* ------------------------------------------------------------------------

\* SessionState::is_connected
is_connected(s) == s.connected

\* SessionState::mark_connected
mark_connected(s, now) ==
  push_event([s EXCEPT !.connected = TRUE, !.last_connected = Some(now)], "Connected")

\* SessionState::mark_disconnected
mark_disconnected(s) == push_event([s EXCEPT !.connected = FALSE], "Disconnected")

\* SessionState::upsert_contact
upsert_contact(s, jid, display_name) ==
  IF \E pos \in 1..Len(s.contacts) : s.contacts[pos].jid = jid
  THEN Bind(CHOOSE pos \in 1..Len(s.contacts) :
              /\ s.contacts[pos].jid = jid
              /\ \A q \in 1..(pos - 1) : s.contacts[q].jid # jid,
            LAMBDA pos : [s EXCEPT !.contacts[pos].display_name = display_name])
  ELSE [s EXCEPT !.contacts = Append(@, [jid |-> jid, display_name |-> display_name])]

\* SessionState::record_message: the new state and the message returned.
record_message(s, to, body, id, now) ==
  Bind([id |-> id, to |-> to, body |-> body, sent_at |-> now, status |-> "Queued",
        ciphertext |-> None], LAMBDA message :
    [state |-> push_event([s EXCEPT !.outgoing_messages = Append(@, message)], "MessageSent"),
     ret   |-> message])

\* SessionState::record_incoming_message
record_incoming_message(s, from, body, id, now) ==
  Bind([id |-> id, from |-> from, body |-> body, received_at |-> now], LAMBDA message :
    [state |-> push_event([s EXCEPT !.incoming_messages = Append(@, message)], "MessageReceived"),
     ret   |-> message])

\* The position of the first outgoing message with the id, 0 when there is
\* none (iter_mut().find(|msg| msg.id == id)).
find_outgoing(s, id) ==
  IF \E pos \in 1..Len(s.outgoing_messages) : s.outgoing_messages[pos].id = id
  THEN CHOOSE pos \in 1..Len(s.outgoing_messages) :
         /\ s.outgoing_messages[pos].id = id
         /\ \A q \in 1..(pos - 1) : s.outgoing_messages[q].id # id
  ELSE 0

\* SessionState::mark_outgoing_status
mark_outgoing_status(s, id, status) ==
  Bind(find_outgoing(s, id), LAMBDA pos :
    IF pos = 0 THEN [state |-> s, ret |-> None]
    ELSE Bind(push_event([s EXCEPT !.outgoing_messages[pos].status = status],
                         "MessageStatusChanged"), LAMBDA s2 :
           [state |-> s2, ret |-> Some(s2.outgoing_messages[pos])]))

\* WhatsmeowClient::cipher: the AES-256-GCM key, SHA-256 of the secret.
client_cipher(secret) ==
  IF secret = "" THEN [ok |-> FALSE, key |-> <<>>]
  ELSE [ok |-> TRUE, key |-> <<"sha256", secret>>]

\* WhatsmeowClient::encrypt_body: base64 of the nonce drawn and the sealed body.
encrypt_body(secret, body, nonce_bytes) ==
  Bind(client_cipher(secret), LAMBDA c :
    IF ~c.ok THEN [ok |-> FALSE, out |-> <<>>]
    ELSE [ok |-> TRUE, out |-> <<"base64", nonce_bytes, Seal(c.key, nonce_bytes, <<>>, body)>>])

\* WhatsmeowClient::connect
connect(s, now) ==
  IF ~is_registered(s) THEN ClientResult(s, "NotRegistered", None)
  ELSE ClientResult(mark_connected(s, now), "Ok", None)

\* WhatsmeowClient::disconnect
disconnect(s) ==
  IF ~is_registered(s) THEN ClientResult(s, "NotRegistered", None)
  ELSE ClientResult(mark_disconnected(s), "Ok", None)

\* WhatsmeowClient::send_message
send_message(s, secret, to, body, id, nonce_bytes, now) ==
  IF ~is_registered(s) THEN ClientResult(s, "NotRegistered", None)
  ELSE IF ~is_connected(s) THEN ClientResult(s, "NotConnected", None)
  ELSE
  Bind(record_message(upsert_contact(s, to, to), to, body, id, now), LAMBDA rec :
  Bind(encrypt_body(secret, rec.ret.body, nonce_bytes), LAMBDA ciphertext :
    IF ~ciphertext.ok THEN ClientResult(rec.state, "EncryptionFailure", None)
    ELSE
    Bind(push_event(rec.state, "MessageEncrypted"), LAMBDA s2 :
    Bind(find_outgoing(s2, rec.ret.id), LAMBDA pos :
      ClientResult(IF pos = 0 THEN s2
                   ELSE [s2 EXCEPT !.outgoing_messages[pos].ciphertext = Some(ciphertext.out)],
                   "Ok",
                   Some([rec.ret EXCEPT !.ciphertext = Some(ciphertext.out)]))))))

\* simulate_incoming_message without the check of the connection.
simulate_incoming_message_unconnected(s, from, body, id, now) ==
  IF ~is_registered(s) THEN ClientResult(s, "NotRegistered", None)
  ELSE Bind(record_incoming_message(upsert_contact(s, from, from), from, body, id, now), LAMBDA rec :
         ClientResult(rec.state, "Ok", Some(rec.ret)))

\* WhatsmeowClient::simulate_incoming_message
simulate_incoming_message(s, from, body, id, now) ==
  IF ~is_registered(s) THEN ClientResult(s, "NotRegistered", None)
  ELSE IF ~is_connected(s) THEN ClientResult(s, "NotConnected", None)
  ELSE Bind(record_incoming_message(upsert_contact(s, from, from), from, body, id, now), LAMBDA rec :
         ClientResult(rec.state, "Ok", Some(rec.ret)))

\* WhatsmeowClient::mark_message_status
mark_message_status(s, id, status) ==
  IF ~is_registered(s) THEN ClientResult(s, "NotRegistered", None)
  ELSE IF ~is_connected(s) THEN ClientResult(s, "NotConnected", None)
  ELSE Bind(mark_outgoing_status(s, id, status), LAMBDA updated :
         IF updated.ret = None THEN ClientResult(updated.state, "MessageNotFound", None)
         ELSE ClientResult(updated.state, "Ok", updated.ret))

MaxLog == 5   \* events recorded in a session that sends messages

\* The encryption_secret of the configuration: empty, and the default one.
Secrets == {"", "local-dev-secret"}

Correspondents == {"alice@s.whatsapp.net", "bob@s.whatsapp.net"}

\* The next Uuid drawn.
NextUuid(s) == Len(s.outgoing_messages) + Len(s.incoming_messages) + 1

\* WhatsmeowClient::new(config, SessionState::default()), for a configuration
\* with either secret.
InitMessaging ==
  /\ \E secret \in Secrets :
       client = AfterCall("new", None, ClientResult(SessionState_default, "Ok", None),
                          SessionState_default, 0)
                @@ [config |-> [encryption_secret |-> secret]]
  /\ clock = 0

\* A call on the client, which keeps its configuration.
MessagingCall(fn, arg, r) ==
  /\ Len(r.state.events) <= MaxLog
  /\ client' = AfterCall(fn, arg, r, client.state, clock) @@ [config |-> client.config]
  /\ UNCHANGED <<clock, cry, tracker, pairing, codecVars, hsVars, trVars>>

\* client.register_device(jid)
MsgRegisterDevice ==
  MessagingCall("register_device", Some("123@s.whatsapp.net"),
                ClientResult(SessionState_register(client.state, "123@s.whatsapp.net"), "Ok", None))

\* client.connect()
Connect == MessagingCall("connect", None, connect(client.state, clock))

\* client.disconnect()
Disconnect == MessagingCall("disconnect", None, disconnect(client.state))

\* client.request_pairing_code()
MsgRequestPairingCode ==
  MessagingCall("request_pairing_code", None,
                request_pairing_code(client.state, "Ab3dEf9h", clock, clock))

\* client.generate_qr_login()
MsgGenerateQrLogin ==
  MessagingCall("generate_qr_login", None, generate_qr_login(client.state, "tokenA", clock, clock))

\* client.send_message(to, "hello")
SendMessage ==
  \E to \in Correspondents :
    MessagingCall("send_message", Some(to),
                  send_message(client.state, client.config.encryption_secret, to, "hello",
                               NextUuid(client.state), <<"nonce", NextUuid(client.state)>>, clock))

\* client.simulate_incoming_message(from, "hi")
SimulateIncomingMessage ==
  \E from \in Correspondents :
    MessagingCall("simulate_incoming_message", Some(from),
                  simulate_incoming_message(client.state, from, "hi", NextUuid(client.state), clock))

\* client.mark_message_status(id, status), for the ids drawn so far and one
\* that was never drawn.
MarkMessageStatus ==
  \E id \in 1..NextUuid(client.state) : \E status \in {"Delivered", "Read"} :
    MessagingCall("mark_message_status", Some(id), mark_message_status(client.state, id, status))

NextMessaging ==
  \/ MsgRegisterDevice
  \/ Connect
  \/ Disconnect
  \/ MsgRequestPairingCode
  \/ MsgGenerateQrLogin
  \/ SendMessage
  \/ SimulateIncomingMessage
  \/ MarkMessageStatus

MessagingInit ==
  InitCodecIdle /\ InitHsIdle /\ InitTrIdle /\ InitMessaging /\ cry = <<>> /\ tracker = <<>> /\ pairing = <<>>

SpecMessaging ==
  /\ MessagingInit
  /\ [][NextMessaging]_vars

\* ------------------------------------------------------------------------
\* One NoiseSocket from connect on (src/socket/mod.rs): handshake, send and
\* recv in any order.  `got` logs the calls: the struct before and after,
\* the result, and whether a cipher encrypted or decrypted (its nonce counter
\* has advanced).
\* ------------------------------------------------------------------------

\* NoiseSocket::connect, when connect_async succeeds.
NoiseSocket_connect == [send_cipher |-> None, recv_cipher |-> None, handshake_complete |-> FALSE]

\* The end of handshake that sets handshake_complete whatever came before.
NoiseSocket_store_eager(sock, r) ==
  [send_cipher        |-> IF r.keys = None THEN sock.send_cipher ELSE Some(r.keys[1].send),
   recv_cipher        |-> IF r.keys = None THEN sock.recv_cipher ELSE Some(r.keys[1].recv),
   handshake_complete |-> TRUE]

\* The end of handshake: the ciphers of split and the flag are stored when
\* every step before has succeeded, and nothing is stored otherwise.
NoiseSocket_store(sock, r) ==
  IF r.res = "Ok"
  THEN [send_cipher        |-> Some(r.keys[1].send),
        recv_cipher        |-> Some(r.keys[1].recv),
        handshake_complete |-> TRUE]
  ELSE sock

\* What the websocket does during a handshake: nothing wrong, or send_raw of
\* frame 1, recv_raw, or send_raw of frame 3 fails.
WsFaults == {"none", "send1", "recv", "send3"}

\* NoiseSocket::handshake on the struct, with the `?` on send_raw and
\* recv_raw: the result and the struct after the call.
NoiseSocket_handshake_on(sock, static_key, eph, response, fault) ==
  Bind(NoiseSocket_handshake(static_key, eph, response), LAMBDA r :
    IF fault = "send1" THEN [res |-> "SendFailed", sock |-> sock]
    ELSE IF fault = "recv" THEN [res |-> "ConnectionClosed", sock |-> sock]
    ELSE IF fault = "send3" /\ Len(r.sent) = 2 THEN [res |-> "SendFailed", sock |-> sock]
    ELSE [res |-> r.res, sock |-> NoiseSocket_store(sock, r)])

MaxSocketCalls == 4

\* What the server may send once the socket has a receive cipher: a frame
\* sealed for the next receive counter; and at any time a frame of noise and
\* a message too short for a frame.
SocketFrames(sock) ==
  (IF sock.recv_cipher = None THEN {}
   ELSE {<<Len3(26)>> \o Cipher_encrypt(sock.recv_cipher[1], << <<"blob", 10, "reply">> >>, <<>>).out})
  \cup {<< Len3(32), <<"junk", 32, <<"noise">>>> >>, << <<"junk", 2, <<"short">>>> >>}

InitSocket ==
  /\ kind = "NoiseSocket"
  /\ conn = NoiseSocket_connect
  /\ wire = <<>>
  /\ sent = <<>>
  /\ got = <<>>
  /\ tampered = 0

\* The log with one more call.
SocketCalled(op, res, after, used) ==
  Append(got, [op |-> op, res |-> res, before |-> conn, after |-> after, used |-> used])

\* socket.handshake(static_key)
SockHandshake ==
  /\ Len(got) < MaxSocketCalls
  /\ \E response \in SocketResponses(KeyPair_from_private_key("eI").public) : \E fault \in WsFaults :
       LET r == NoiseSocket_handshake_on(conn, LocalStatic("I"), "eI", response, fault)
       IN  /\ conn' = r.sock
           /\ got' = SocketCalled("handshake", r.res, r.sock, FALSE)
  /\ UNCHANGED <<kind, wire, sent, tampered, codecVars, hsVars, appVars>>

\* socket.send(data)
SockSend ==
  /\ Len(got) < MaxSocketCalls
  /\ LET r == NoiseSocket_send(conn, << <<"blob", 10, "request">> >>)
     IN  /\ conn' = r.conn
         /\ got' = SocketCalled("send", r.res, r.conn, r.conn # conn)
  /\ UNCHANGED <<kind, wire, sent, tampered, codecVars, hsVars, appVars>>

\* socket.recv() with the next websocket message
SockRecv ==
  /\ Len(got) < MaxSocketCalls
  /\ \E frame \in SocketFrames(conn) :
       LET r == NoiseSocket_recv(conn, <<frame>>)
       IN  /\ conn' = r.conn
           /\ got' = SocketCalled("recv", r.res, r.conn, r.conn # conn)
  /\ UNCHANGED <<kind, wire, sent, tampered, codecVars, hsVars, appVars>>

NextSocket ==
  \/ SockHandshake
  \/ SockSend
  \/ SockRecv

SocketInit == InitCodecIdle /\ InitHsIdle /\ InitSocket /\ InitAppIdle

SpecSocket ==
  /\ SocketInit
  /\ [][NextSocket]_vars

\* ------------------------------------------------------------------------
\* protocol::Client (src/protocol/client.rs): the socket it stores and its
\* `connected` flag.  `client` holds the struct, the number of calls made and
\* the last call with the struct before it.
\* ------------------------------------------------------------------------

\* encode(&node) of a message node, as the bytes handed to the socket.
EncodedNode == << <<"blob", 40, "node">> >>

\* Client::with_config: no socket, not connected; the device has been
\* initialized and holds a noise key.
Client_new == [socket |-> None, connected |-> FALSE, noise_key |-> Some(LocalStatic("I"))]

\* What a call on the Client returns and the struct it leaves.
Returned(c, res) == [c |-> c, res |-> res]

\* Client::connect.  reachable tells whether NoiseSocket::connect succeeds;
\* response and fault are the server's answer and the websocket's behaviour
\* during the handshake.
Client_connect(c, reachable, response, fault) ==
  IF c.connected THEN Returned(c, "AlreadyConnected")
  ELSE IF ~reachable THEN Returned(c, "ConnectionFailed")
  ELSE IF c.noise_key = None THEN Returned(c, "HandshakeFailed")
  ELSE
  Bind(NoiseSocket_handshake_on(NoiseSocket_connect, c.noise_key[1], "eI", response, fault), LAMBDA h :
    IF h.res # "Ok" THEN Returned(c, "HandshakeFailed")
    ELSE Returned([c EXCEPT !.socket = Some(h.sock), !.connected = TRUE], "Ok"))

\* disconnect that keeps the socket.
Client_disconnect_keep(c, closes) ==
  IF c.socket # None /\ ~closes THEN Returned(c, "SendFailed")
  ELSE Returned([c EXCEPT !.connected = FALSE], "Ok")

\* Client::disconnect.  closes tells whether socket.close() succeeds.
Client_disconnect(c, closes) ==
  IF c.socket # None /\ ~closes THEN Returned(c, "SendFailed")
  ELSE Returned([c EXCEPT !.socket = None, !.connected = FALSE], "Ok")

\* Client::send_message, with the encoded message node as the data sent.
\* delivered tells whether the websocket accepts the frame; the cipher has
\* encrypted before the websocket is asked.
Client_send_message(c, data, delivered) ==
  IF ~c.connected THEN Returned(c, "NotConnected")
  ELSE IF c.socket = None THEN Returned(c, "Ok")
  ELSE Bind(NoiseSocket_send(c.socket[1], data), LAMBDA r :
         IF r.res # "Ok" \/ ~delivered THEN Returned([c EXCEPT !.socket = Some(r.conn)], "SendFailed")
         ELSE Returned([c EXCEPT !.socket = Some(r.conn)], "Ok"))

\* Client::receive with the next websocket message; a plaintext decodes when
\* it is an encoded node.
Client_receive(c, frame) ==
  IF ~c.connected THEN Returned(c, "NotConnected")
  ELSE IF c.socket = None THEN Returned(c, "NotConnected")
  ELSE Bind(NoiseSocket_recv(c.socket[1], <<frame>>), LAMBDA r :
         IF r.res # "Ok" THEN Returned([c EXCEPT !.socket = Some(r.conn)], "ReceiveFailed")
         ELSE IF r.out # EncodedNode THEN Returned([c EXCEPT !.socket = Some(r.conn)], "ReceiveFailed")
         ELSE Returned([c EXCEPT !.socket = Some(r.conn)], "Ok"))

MaxClientCalls == 5

\* Client::new()
InitProtocol ==
  /\ client = [c |-> Client_new, calls |-> 0, fn |-> "new", res |-> "Ok", before |-> Client_new]
  /\ clock = 0

\* The client after a call.
ProtocolCall(fn, r) ==
  /\ client.calls < MaxClientCalls
  /\ client' = [c |-> r.c, calls |-> client.calls + 1, fn |-> fn, res |-> r.res, before |-> client.c]
  /\ UNCHANGED <<clock, cry, tracker, pairing, codecVars, hsVars, trVars>>

\* client.connect()
PcConnect ==
  \E reachable \in BOOLEAN : \E fault \in WsFaults :
    \E response \in SocketResponses(KeyPair_from_private_key("eI").public) :
      ProtocolCall("connect", Client_connect(client.c, reachable, response, fault))

\* client.disconnect()
PcDisconnect ==
  \E closes \in BOOLEAN : ProtocolCall("disconnect", Client_disconnect(client.c, closes))

\* client.send_message(to, text)
PcSendMessage ==
  \E delivered \in BOOLEAN :
    ProtocolCall("send_message", Client_send_message(client.c, EncodedNode, delivered))

\* What the server may send to a client: to one with a socket what it may
\* send to the socket and an encoded node sealed for the next receive
\* counter, to one without a frame of noise.
ClientFrames(c) ==
  IF c.socket = None THEN {<< Len3(32), <<"junk", 32, <<"noise">>>> >>}
  ELSE SocketFrames(c.socket[1])
       \cup (IF c.socket[1].recv_cipher = None THEN {}
             ELSE {<<Len3(56)>> \o Cipher_encrypt(c.socket[1].recv_cipher[1], EncodedNode, <<>>).out})

\* client.receive()
PcReceive ==
  \E frame \in ClientFrames(client.c) : ProtocolCall("receive", Client_receive(client.c, frame))

NextProtocol ==
  \/ PcConnect
  \/ PcDisconnect
  \/ PcSendMessage
  \/ PcReceive

ProtocolInit ==
  InitCodecIdle /\ InitHsIdle /\ InitTrIdle /\ InitProtocol /\ cry = <<>> /\ tracker = <<>> /\ pairing = <<>>

SpecProtocol ==
  /\ ProtocolInit
  /\ [][NextProtocol]_vars

\* ------------------------------------------------------------------------
\* RequestTracker used from several threads (src/protocol/request.rs).
\*
\* Every thread makes calls of next_id, register, complete and cancel on one
\* tracker.  A call is a sequence of steps: it takes the RwLock of the field
\* it works on, reads, writes, and gives the lock back, and steps of
\* different threads interleave in any order.  Threads are numbered from 1,
\* channels by the register call that made them; 0 stands for no thread and
\* no channel.
\* ------------------------------------------------------------------------

Threads == {1, 2}

MaxThreadCalls == 5   \* calls started on the tracker, all threads together

\* What rand::random::<u16>() may return.
RandomU16 == {43981, 65535}

\* format!("{:X}", n) as ASCII codes
RECURSIVE UpperHex(_)
UpperHex(n) ==
  LET digit == n % 16
      code  == IF digit < 10 THEN 48 + digit ELSE 55 + digit
  IN  IF n < 16 THEN <<code>> ELSE UpperHex(n \div 16) \o <<code>>

\* format!("{:X}.{}", r, counter) as ASCII codes
format_id(r, counter) == UpperHex(r) \o <<46>> \o Digits(counter)

\* RwLock::write that does not wait for the lock.
write_unlocked(holder, th) == [granted |-> TRUE, holder |-> holder]

\* RwLock::write: granted when no thread holds the lock, and the thread holds
\* it from then on.
write(holder, th) == [granted |-> holder = 0, holder |-> th]

\* Dropping the guard gives the lock back.
drop_guard(holder, th) == IF holder = th THEN 0 ELSE holder

\* A thread between calls.
ThreadIdle == [pc |-> "idle", fn |-> "", id |-> "", tx |-> 0]

\* RequestTracker::new() shared by the threads: the two fields with their
\* locks, the receiver end of every channel made, for every channel whether
\* its sender was put in the map, how many complete or cancel calls took it
\* out, whether a register replaced it, how many responses were sent on it,
\* the ids next_id returned in the order they were formatted, and the
\* threads.
InitShared ==
  tracker = [pending |-> RequestTracker_new.pending, counter |-> RequestTracker_new.counter,
             pending_lock |-> 0, counter_lock |-> 0,
             rx |-> <<>>, inserted |-> {}, removed |-> <<>>, replaced |-> {}, delivered |-> <<>>,
             issued |-> <<>>, calls |-> 0,
             thr |-> [th \in Threads |-> ThreadIdle]]

\* The channels whose senders are in the map.
PendingSenders(t) == {t.pending[id] : id \in DOMAIN t.pending}

\* A thread starts a call; register makes its channel before it asks for the
\* lock.
ThreadCall(th) ==
  /\ tracker.thr[th].pc = "idle"
  /\ tracker.calls < MaxThreadCalls
  /\ \E fn \in {"next_id", "register", "complete", "cancel"} : \E id \in RequestIds :
       LET ch == Len(tracker.rx) + 1
       IN  tracker' =
             IF fn = "register"
             THEN [tracker EXCEPT !.calls = @ + 1,
                                  !.rx = Append(@, "waiting"),
                                  !.removed = Append(@, 0),
                                  !.delivered = Append(@, 0),
                                  !.thr[th] = [pc |-> "lock", fn |-> fn, id |-> id, tx |-> ch]]
             ELSE [tracker EXCEPT !.calls = @ + 1,
                                  !.thr[th] = [pc |-> "lock", fn |-> fn,
                                               id |-> IF fn = "next_id" THEN "" ELSE id, tx |-> 0]]
  /\ UNCHANGED <<cry, client, clock, pairing, codecVars, hsVars, trVars>>

\* self.counter.write() in next_id, self.pending.write() in the others.
ThreadLock(th) ==
  /\ tracker.thr[th].pc = "lock"
  /\ IF tracker.thr[th].fn = "next_id"
     THEN LET w == write(tracker.counter_lock, th)
          IN  /\ w.granted
              /\ tracker' = [tracker EXCEPT !.counter_lock = w.holder, !.thr[th].pc = "load"]
     ELSE LET w == write(tracker.pending_lock, th)
          IN  /\ w.granted
              /\ tracker' = [tracker EXCEPT !.pending_lock = w.holder,
                               !.thr[th].pc = IF tracker.thr[th].fn = "register" THEN "insert" ELSE "find"]
  /\ UNCHANGED <<cry, client, clock, pairing, codecVars, hsVars, trVars>>

\* next_id: `*counter += 1` reads the counter ...
NextIdLoad(th) ==
  /\ tracker.thr[th].pc = "load"
  /\ tracker' = [tracker EXCEPT !.thr[th].tx = tracker.counter, !.thr[th].pc = "store"]
  /\ UNCHANGED <<cry, client, clock, pairing, codecVars, hsVars, trVars>>

\* ... and writes it back one larger.
NextIdStore(th) ==
  /\ tracker.thr[th].pc = "store"
  /\ tracker' = [tracker EXCEPT !.counter = tracker.thr[th].tx + 1, !.thr[th].pc = "format"]
  /\ UNCHANGED <<cry, client, clock, pairing, codecVars, hsVars, trVars>>

\* next_id: the id is formatted from the counter, and the guard is dropped on
\* return.
NextIdFormat(th) ==
  /\ tracker.thr[th].pc = "format"
  /\ \E r \in RandomU16 :
       tracker' = [tracker EXCEPT
                     !.issued = Append(@, [text |-> format_id(r, tracker.counter), counter |-> tracker.counter]),
                     !.counter_lock = drop_guard(@, th),
                     !.thr[th] = ThreadIdle]
  /\ UNCHANGED <<cry, client, clock, pairing, codecVars, hsVars, trVars>>

\* register: insert under the lock; a sender it replaces is dropped, and the
\* guard with it.
RegisterInsert(th) ==
  /\ tracker.thr[th].pc = "insert"
  /\ LET r == RequestTracker_register([pending |-> tracker.pending, counter |-> tracker.counter],
                                      tracker.thr[th].id, tracker.thr[th].tx)
     IN  tracker' = [tracker EXCEPT !.pending = r.t.pending,
                                    !.inserted = @ \cup {tracker.thr[th].tx},
                                    !.replaced = @ \cup r.dropped,
                                    !.rx = Closed(@, r.dropped),
                                    !.pending_lock = drop_guard(@, th),
                                    !.thr[th] = ThreadIdle]
  /\ UNCHANGED <<cry, client, clock, pairing, codecVars, hsVars, trVars>>

\* HashMap::remove in complete and cancel looks the key up ...
RemoveFind(th) ==
  /\ tracker.thr[th].pc = "find"
  /\ tracker' = [tracker EXCEPT
                   !.thr[th].tx = IF tracker.thr[th].id \in DOMAIN tracker.pending
                                  THEN tracker.pending[tracker.thr[th].id] ELSE 0,
                   !.thr[th].pc = "erase"]
  /\ UNCHANGED <<cry, client, clock, pairing, codecVars, hsVars, trVars>>

\* ... and takes the entry it found out of the map.  cancel drops the sender
\* and the guard; complete goes on to send.
RemoveErase(th) ==
  /\ tracker.thr[th].pc = "erase"
  /\ LET me  == tracker.thr[th]
         out == IF me.tx = 0 THEN {} ELSE {me.tx}
     IN  tracker' =
           IF me.fn = "cancel"
           THEN [tracker EXCEPT !.pending = IF me.tx = 0 THEN @ ELSE RequestTracker_cancel(tracker, me.id).t.pending,
                                !.removed = [ch \in DOMAIN @ |-> IF ch \in out THEN @[ch] + 1 ELSE @[ch]],
                                !.rx = Closed(@, out),
                                !.pending_lock = drop_guard(@, th),
                                !.thr[th] = ThreadIdle]
           ELSE [tracker EXCEPT !.pending = IF me.tx = 0 THEN @ ELSE RequestTracker_complete(tracker, me.id).t.pending,
                                !.removed = [ch \in DOMAIN @ |-> IF ch \in out THEN @[ch] + 1 ELSE @[ch]],
                                !.thr[th].pc = "send"]
  /\ UNCHANGED <<cry, client, clock, pairing, codecVars, hsVars, trVars>>

\* complete: tx.send(response) reaches the receiver unless it was dropped;
\* the guard is dropped when the `if let` ends.
CompleteSend(th) ==
  /\ tracker.thr[th].pc = "send"
  /\ \E response \in Responses :
       LET tx == tracker.thr[th].tx
           ok == tx # 0 /\ tracker.rx[tx] # "dropped"
       IN  tracker' = [tracker EXCEPT
                         !.rx = [ch \in DOMAIN @ |-> IF ok /\ ch = tx THEN <<response>> ELSE @[ch]],
                         !.delivered = [ch \in DOMAIN @ |-> IF ok /\ ch = tx THEN @[ch] + 1 ELSE @[ch]],
                         !.pending_lock = drop_guard(@, th),
                         !.thr[th] = ThreadIdle]
  /\ UNCHANGED <<cry, client, clock, pairing, codecVars, hsVars, trVars>>

\* The caller drops a receiver that register has returned to it.
ThreadDropReceiver ==
  /\ \E ch \in tracker.inserted :
       /\ tracker.rx[ch] = "waiting"
       /\ tracker' = [tracker EXCEPT !.rx[ch] = "dropped"]
  /\ UNCHANGED <<cry, client, clock, pairing, codecVars, hsVars, trVars>>

NextShared ==
  \/ \E th \in Threads : ThreadCall(th)
  \/ \E th \in Threads : ThreadLock(th)
  \/ \E th \in Threads : NextIdLoad(th)
  \/ \E th \in Threads : NextIdStore(th)
  \/ \E th \in Threads : NextIdFormat(th)
  \/ \E th \in Threads : RegisterInsert(th)
  \/ \E th \in Threads : RemoveFind(th)
  \/ \E th \in Threads : RemoveErase(th)
  \/ \E th \in Threads : CompleteSend(th)
  \/ ThreadDropReceiver

SharedInit ==
  InitCodecIdle /\ InitHsIdle /\ InitTrIdle /\ InitShared /\ cry = <<>> /\ client = <<>> /\ clock = 0 /\ pairing = <<>>

SpecShared ==
  /\ SharedInit
  /\ [][NextShared]_vars

\* ------------------------------------------------------------------------
\* Claims on the wire fields
\* ------------------------------------------------------------------------

\* C31: the header byte keeps the attribute-pair count and the content
\* flag: the count read from the byte (byte >> 1) and the flag (byte & 1)
\* are the node's own, also for 128 attributes and more.
C31_HeaderLossless ==
  (tok # NoTok /\ tok.op = "header") =>
    /\ tok.header \div 2 = tok.num_attrs
    /\ (tok.header % 2 = 1) = tok.has_content

\* C32: every length and child count the encoder writes is read by the
\* decoder as the same number, from the same number of bytes.
C32_FieldReadBack ==
  (tok # NoTok /\ tok.op = "field") =>
    /\ tok.back.err = ""
    /\ tok.back.val = tok.n
    /\ tok.back.index = Len(tok.bytes)

\* ------------------------------------------------------------------------
\* Claims on the handshake
\* ------------------------------------------------------------------------

\* The first read_message_2 on p has just run and got as far as the payload.
Message2Read(p) ==
  /\ hsLog[p] # <<>>
  /\ hsLog[p][Len(hsLog[p])].op = "read_message_2"
  /\ Cardinality({i \in 1..Len(hsLog[p]) : hsLog[p][i].op = "read_message_2"}) = 1
  /\ hs[p].remote_static # None

\* do_handshake got as far as the payload of the server hello.
HelloRead == wa.fn = "do_handshake" /\ Len(wa.uses) >= 2

\* The ciphertext ct was sealed under the key, nonce and associated data of
\* the AEAD operation u.
SealedFor(ct, u) ==
  /\ Len(ct) = 1
  /\ ct[1][1] = "aead"
  /\ ct[1][2] = u.key /\ ct[1][3] = u.nonce /\ ct[1][4] = u.ad

\* The order of message 2 on an object of crypto/noise.rs, read from its
\* state: the hash after the remote ephemeral key is the associated data of
\* the static key's decryption, whose key comes from the ee secret; the hash
\* after the static ciphertext is that of the payload's decryption, whose key
\* comes from the es secret on top of the ee one; the payload's ciphertext is
\* mixed last.
Message2Order(p) ==
  LET st        == hs[p]
      ok        == hsLog[p][Len(hsLog[p])].res = "Ok"
      u         == Len(st.uses)
      hash_s    == IF ok THEN st.hash[2] ELSE st.hash
      hash_e    == hash_s[2]
      ck0       == st.chaining_key[2][2]
      shared_ee == KeyPair_dh(st.local_ephemeral[1], st.remote_ephemeral[1])
      shared_es == KeyPair_dh(st.local_ephemeral[1], st.remote_static[1])
  IN  /\ u = 2
      /\ hash_e[3] = ArrBytes(st.remote_ephemeral[1])
      /\ st.uses[1].key = Hkdf_derive(ck0, shared_ee)[2]
      /\ st.uses[1].ad = hash_e
      /\ hash_s[3] = <<Seal(st.uses[1].key, st.uses[1].nonce, hash_e, ArrBytes(st.remote_static[1]))>>
      /\ st.chaining_key = Hkdf_derive(Hkdf_derive(ck0, shared_ee)[1], shared_es)[1]
      /\ st.uses[2].key = Hkdf_derive(Hkdf_derive(ck0, shared_ee)[1], shared_es)[2]
      /\ st.uses[2].ad = hash_s
      /\ ok => SealedFor(st.hash[3], st.uses[2])

\* The same order in do_handshake, read from the AEAD operations and the
\* final hash of its NoiseHandshake (two more ciphertexts are mixed in by
\* message 3 when it returns Ok).
HelloOrder ==
  LET ok         == wa.res = "Ok"
      hash_p     == IF ok THEN wa.hash[2][2] ELSE wa.hash
      hash_s     == IF ok THEN hash_p[2] ELSE wa.hash
      hash_e     == hash_s[2]
      server_eph == AsArray(hash_e[3])
      server_s   == AsArray(hash_s[3][1][5])
      d1         == Hkdf_derive(NOISE_PATTERN, x25519("eC", server_eph))
      d2         == Hkdf_derive(d1[1], x25519("eC", server_s))
  IN  /\ wa.uses[1].key = d1[2]
      /\ wa.uses[1].ad = hash_e
      /\ SealedFor(hash_s[3], wa.uses[1])
      /\ wa.uses[2].key = d2[2]
      /\ wa.uses[2].ad = hash_s
      /\ ok => SealedFor(hash_p[3], wa.uses[2])

\* C33: message 2 is processed in the order: remote ephemeral key into the
\* hash; ee secret into the key; static key decrypted with the hash of that
\* moment, its ciphertext into the hash; es secret into the key; payload
\* decrypted with the hash of that moment, its ciphertext into the hash.
C33_Message2Order ==
  /\ \A p \in Peers : Message2Read(p) => Message2Order(p)
  /\ HelloRead => HelloOrder

C33_Witness ==
  /\ Message2Read("I")
  /\ hsLog["I"][Len(hsLog["I"])].res = "Ok"
  /\ Len(HashMixed(hs["I"].hash)) = 4

\* The frame begins with a connection header ("WA" and two version bytes).
HasHeader(frame) == frame # <<>> /\ frame[1][1] = "blob" /\ frame[1][2] = 4

\* The frame is a 3-byte length and that many further bytes.
LengthThenMessage(frame) ==
  /\ frame # <<>>
  /\ frame[1][1] = "len3"
  /\ frame[1][2] = ByteLen(Tail(frame))

\* The received bytes begin with a 3-byte length and hold at least that many
\* further bytes.
WholeFrame(data) ==
  /\ data # <<>>
  /\ data[1][1] = "len3"
  /\ ByteLen(data) >= 3 + data[1][2]

\* C34: of the frames a handshake sends only the first begins with the
\* connection header, every later one is a 3-byte length and the message; and
\* from a received frame with a 3-byte length and at least that many further
\* bytes, exactly those bytes are taken as message 2.
C34_HandshakeFraming ==
  wa.fn # "" =>
    /\ wa.sent # <<>>
    /\ HasHeader(wa.sent[1])
    /\ \A i \in 2..Len(wa.sent) : LengthThenMessage(wa.sent[i])
    /\ WholeFrame(wa.recvd) =>
         /\ wa.decoded # None
         /\ wa.decoded[1] = Slice(wa.recvd, 3, 3 + wa.recvd[1][2])

\* The part of C34 on do_handshake of socket/handshake.rs.
C34_DoHandshakeFraming == wa.fn = "do_handshake" => C34_HandshakeFraming

\* C35: do_handshake hands to the decoder of the server hello nothing but
\* the `len` bytes after the length prefix of a frame received whole, and
\* returns an error without decoding anything when the frame is not whole.
C35_WholeFrameOnly ==
  wa.fn = "do_handshake" =>
    /\ wa.decoded # None =>
         /\ WholeFrame(wa.recvd)
         /\ wa.decoded[1] = Slice(wa.recvd, 3, 3 + wa.recvd[1][2])
    /\ ~WholeFrame(wa.recvd) => wa.res # "Ok"

\* ------------------------------------------------------------------------
\* Claims on the client's connection and messages
\* ------------------------------------------------------------------------

NeedRegistration ==
  {"connect", "request_pairing_code", "generate_qr_login", "disconnect", "send_message",
   "simulate_incoming_message", "mark_message_status"}

NeedConnection == {"send_message", "simulate_incoming_message", "mark_message_status"}

\* C36: a call that needs a registered device returns NotRegistered on an
\* unregistered session, a call that needs a connection returns NotConnected
\* on a registered session that is not connected, and either leaves the
\* session state as it was.
C36_Preconditions ==
  /\ (client.fn \in NeedRegistration /\ ~is_registered(client.before)) =>
       /\ client.res = "NotRegistered"
       /\ client.state = client.before
  /\ (client.fn \in NeedConnection /\ is_registered(client.before) /\ ~is_connected(client.before)) =>
       /\ client.res = "NotConnected"
       /\ client.state = client.before

\* A message was received before, the client was disconnected since, and a
\* further message is refused.
C36_Witness ==
  /\ client.fn = "simulate_incoming_message"
  /\ is_registered(client.before)
  /\ ~is_connected(client.before)
  /\ client.before.incoming_messages # <<>>
  /\ client.res = "NotConnected"
  /\ client.state = client.before

\* C37: every outgoing message of the session carries a ciphertext, and a
\* send_message call that returns an error leaves the outgoing messages, the
\* contacts and the events as they were.
C37_SentIsEncrypted ==
  /\ \A i \in 1..Len(client.state.outgoing_messages) :
       client.state.outgoing_messages[i].ciphertext # None
  /\ (client.fn = "send_message" /\ client.res # "Ok") =>
       /\ client.state.outgoing_messages = client.before.outgoing_messages
       /\ client.state.contacts = client.before.contacts
       /\ client.state.events = client.before.events

\* ------------------------------------------------------------------------
\* Claims on the socket and on protocol::Client
\* ------------------------------------------------------------------------

\* No handshake call before call i of the log returned Ok.
NoHandshakeYet(i) == \A j \in 1..(i - 1) : ~(got[j].op = "handshake" /\ got[j].res = "Ok")

C39_ConnectedIffSocket ==
  /\ client.c.connected <=> client.c.socket # None
  /\ client.fn = "new" => ~client.c.connected
  /\ (client.fn = "connect" /\ client.before.connected) =>
       (client.res = "AlreadyConnected" /\ client.c = client.before)
  /\ (client.fn = "connect" /\ ~client.before.connected /\ client.res # "Ok") =>
       (~client.c.connected /\ client.c.socket = None)
  /\ (client.fn = "connect" /\ client.res = "Ok") =>
       (client.c.connected /\ client.c.socket # None)
  /\ (client.fn = "disconnect" /\ client.res = "Ok") =>
       (~client.c.connected /\ client.c.socket = None)
  /\ (client.fn \in {"send_message", "receive"} /\ ~client.before.connected) =>
       (client.res = "NotConnected" /\ client.c = client.before)

\* The client was connected, was disconnected with Ok, and a send_message is
\* then refused.
C39_Witness ==
  /\ client.fn = "send_message"
  /\ client.res = "NotConnected"
  /\ client.calls >= 3
  /\ client.c.socket = None


====
